---- MODULE Spec2Model ----
(***************************************************************************)
(* A model of the code-intelligence core: symbol extraction from a syntax  *)
(* tree (codeintel/extract.py), the two-pass graph builder with its        *)
(* definition index (codeintel/graph.py), the node-link store              *)
(* (codeintel/storage.py) and the query service (codeintel/mcp_graph.py).  *)
(*                                                                         *)
(* Text.  A dotted text such as "Foo.method" is the sequence of its        *)
(* dot-separated segments, <<"Foo", "method">>; so   "." in name   is      *)
(* Len(name) > 1,  name.split(".")[-1]  is the last segment and            *)
(* ".".join(xs) is the concatenation of the segments.  A node id           *)
(* "<prefix>:<path>:<qualname>" is the triple <<prefix, path, qualname>>.  *)
(* Source locations (line, column) are carried by the program's facts but  *)
(* read by no operation modelled here; they are left out.                  *)
(***************************************************************************)
EXTENDS Integers, Sequences, FiniteSets, TLC

VARIABLES
    pc,         \* position of the pipeline
    tree,       \* extraction: the parsed syntax tree (root node)
    work,       \* extraction: pending walk() calls and scope.pop() returns
    scope,      \* extraction: the scope stack of (kind, name) pairs
    results,    \* extraction: the result dict of extract_symbols
    extracted,  \* builder: the list of per-file entries given to build_graph
    graph,      \* builder: the nx.DiGraph under construction
    index,      \* builder: the _DefinitionIndex
    cursor,     \* builder: the position of the running pass in `extracted`
    doc,        \* store: the node-link document written by save_graph
    loaded,     \* store: the graph read back by load_graph
    service,    \* service: the GraphService's node list and exact-match index
    query,      \* service: the last query's arguments
    answer,     \* service: the last query's result
    chat        \* plan generation: the chat requests made and what came back

vars == <<pc, tree, work, scope, results, extracted, graph, index, cursor,
          doc, loaded, service,
                   query, answer, chat>>

\* Python's None, and a dict key / keyword that was never set.
NoneVal == "<None>"
Absent == "<absent>"

Last(s) == s[Len(s)]
Front(s) == SubSeq(s, 1, Len(s) - 1)
Range(s) == {s[i] : i \in 1..Len(s)}

(***************************************************************************)
(* Syntax trees.  A node has a type, the text of its "name" field (or      *)
(* None), its own source text as dotted segments, its children, whether    *)
(* its first child is the "superclasses" field, and, for an import         *)
(* statement, what ast.parse makes of its text.  Punctuation and keyword   *)
(* leaves, which walk() visits without effect, are left out.               *)
(***************************************************************************)
TsNode(type, name, text, kids, sup, imports) ==
    [type |-> type, name |-> name, text |-> text, kids |-> kids,
     sup |-> sup, imports |-> imports]

Identifier(s) == TsNode("identifier", NoneVal, <<s>>, <<>>, FALSE, <<>>)

\* The text of a call expression whose function text ends in segment s.
CallText(s) ==
    CASE s = "Foo" -> "Foo()"
      [] s = "helper" -> "helper()"
      [] s = "method" -> "method()"
      [] OTHER -> "call()"

\* object "." attribute ; children: object, attribute
Attribute(obj, attr) ==
    TsNode("attribute", NoneVal, obj.text \o attr.text, <<obj, attr>>, FALSE, <<>>)

\* function arguments ; children: function, argument_list
CallExpr(fn, args) ==
    TsNode("call", NoneVal, Front(fn.text) \o <<CallText(Last(fn.text))>>,
           <<fn, TsNode("argument_list", NoneVal, <<"()">>, args, FALSE, <<>>)>>,
           FALSE, <<>>)

FunctionDef(name, body) ==
    TsNode("function_definition", name, <<"def">>,
           <<TsNode("block", NoneVal, <<"block">>, body, FALSE, <<>>)>>, FALSE, <<>>)

\* bases = <<>> : no superclasses field
ClassDef(name, bases, body) ==
    TsNode("class_definition", name, <<"class">>,
           (IF bases = <<>> THEN <<>>
            ELSE <<TsNode("argument_list", NoneVal, <<"()">>, bases, FALSE, <<>>)>>)
           \o <<TsNode("block", NoneVal, <<"block">>, body, FALSE, <<>>)>>,
           bases # <<>>, <<>>)

\* left "=" right ; children: left, right
Assignment(left, right) ==
    TsNode("assignment", NoneVal, <<"assign">>, <<left, right>>, FALSE, <<>>)

ImportItem(kind, module, names) == [kind |-> kind, module |-> module, names |-> names]

ImportStatement(type, items) ==
    TsNode(type, NoneVal, <<"import">>, <<>>, FALSE, items)

Module(body) == TsNode("module", NoneVal, <<"module">>, body, FALSE, <<>>)


(***************************************************************************)
(* codeintel/models.py : the facts.                                        *)
(***************************************************************************)
Symbol(kind, name, qualname) == [kind |-> kind, name |-> name, qualname |-> qualname]

\* caller = <<>> is None (a call at module level)
Call(name, caller) == [name |-> name, caller |-> caller]

Inheritance(class_name, bases) == [class_name |-> class_name, bases |-> bases]

(***************************************************************************)
(* codeintel/extract.py                                                    *)
(***************************************************************************)
ASSIGNMENT_TYPES == {"assignment", "augmented_assignment", "ann_assignment"}
IMPORT_TYPES == {"import_statement", "import_from_statement"}

ScopeNames(sc) == [i \in 1..Len(sc) |-> sc[i][2]]

_qualname(sc, name) == ScopeNames(sc) \o <<name>>

\* mutant: the scope is never popped
ScopePopForgotten(sc) == sc

\* mutant: the self-reference rewrite is missing
CallNameNoRewrite(name, sc) == name

\* mutant: a dotted callee read as the text of its last attribute only
NodeToDottedNameLastOnly(node) ==
    IF node.type = "attribute" /\ node.kids # <<>> THEN Last(node.kids).text
    ELSE node.text

\* The greatest index of a scope entry of the given kind, 0 if there is none.
InnermostOf(sc, kind) ==
    LET hits == {i \in 1..Len(sc) : sc[i][1] = kind}
    IN IF hits = {} THEN 0 ELSE CHOOSE i \in hits : \A j \in hits : j <= i

_current_function(sc) ==
    LET idx == InnermostOf(sc, "function")
    IN IF idx = 0 THEN <<>> ELSE ScopeNames(SubSeq(sc, 1, idx))

_current_class(sc) ==
    LET idx == InnermostOf(sc, "class")
    IN IF idx = 0 THEN <<>> ELSE ScopeNames(SubSeq(sc, 1, idx))

RECURSIVE _node_to_dotted_name(_)
_node_to_dotted_name(node) ==
    IF node.type \in {"identifier", "dotted_name"} THEN node.text
    ELSE IF node.type = "attribute" /\ node.kids # <<>> THEN
        LET obj_name == _node_to_dotted_name(node.kids[1])
            attr_name == _node_to_dotted_name(Last(node.kids))
        IN IF obj_name # <<>> /\ attr_name # <<>> THEN obj_name \o attr_name
           ELSE node.text
    ELSE node.text

RECURSIVE _collect_identifiers(_)
RECURSIVE CollectFrom(_, _)
\* names.extend(_collect_identifiers(child)) for the children from i on
CollectFrom(kids, i) ==
    IF i > Len(kids) THEN <<>>
    ELSE _collect_identifiers(kids[i]) \o CollectFrom(kids, i + 1)

_collect_identifiers(node) ==
    IF node.type = "identifier" THEN <<node.text>>
    ELSE IF node.type = "attribute" THEN <<_node_to_dotted_name(node)>>
    ELSE CollectFrom(node.kids, 1)

\* the "left" field is the assignment's first child
_assignment_targets(node) ==
    IF node.kids # <<>> THEN _collect_identifiers(node.kids[1]) ELSE <<>>

_class_bases(node) ==
    IF node.sup THEN _collect_identifiers(node.kids[1]) ELSE <<>>

\* ast.parse of the statement text: its items, or [] on a SyntaxError
_extract_imports(node) == node.imports

\* The self-reference rewrite of a callee (extract.py 117-119).
CallName(name, sc) ==
    LET class_scope == _current_class(sc)
    IN IF Len(name) >= 2 /\ name[1] = "self" /\ class_scope # <<>>
       THEN class_scope \o Tail(name)
       ELSE name

IsNamedDef(node) ==
    node.type \in {"function_definition", "class_definition"} /\ node.name # NoneVal

DefKind(node) == IF node.type = "function_definition" THEN "function" ELSE "class"

\* What one call of walk(node) appends to the results before it recurses.
WalkEmit(node, sc, res) ==
    IF node.type = "function_definition" /\ node.name # NoneVal THEN
        [res EXCEPT !.functions =
            Append(@, Symbol("function", node.name, _qualname(sc, node.name)))]
    ELSE IF node.type = "class_definition" /\ node.name # NoneVal THEN
        LET qualname == _qualname(sc, node.name)
            bases == _class_bases(node)
        IN [res EXCEPT
              !.classes = Append(@, Symbol("class", node.name, qualname)),
              !.inherits = IF bases # <<>>
                           THEN Append(@, Inheritance(qualname, bases)) ELSE @]
    ELSE
        LET targets == IF node.type \in ASSIGNMENT_TYPES
                       THEN _assignment_targets(node) ELSE <<>>
            vars1 == [i \in 1..Len(targets) |->
                        Symbol("variable", targets[i], ScopeNames(sc) \o targets[i])]
            imps == IF node.type \in IMPORT_TYPES THEN _extract_imports(node) ELSE <<>>
            name == IF node.type = "call" /\ node.kids # <<>>
                    THEN CallName(_node_to_dotted_name(node.kids[1]), sc) ELSE <<>>
        IN [res EXCEPT
              !.variables = @ \o vars1,
              !.imports = @ \o imps,
              !.calls = IF name # <<>>
                        THEN Append(@, Call(name, _current_function(sc))) ELSE @]

NoNode == Identifier("-")
VisitItem(node) == [op |-> "visit", node |-> node]
PopItem == [op |-> "pop", node |-> NoNode]
Visits(kids) == [i \in 1..Len(kids) |-> VisitItem(kids[i])]

\* scope.append((kind, name)) on entering a named definition
ScopePush(sc, node) == Append(sc, <<DefKind(node), node.name>>)

\* scope.pop() on leaving it
ScopePop(sc) == Front(sc)

EmptyResults(path) ==
    [path |-> path, functions |-> <<>>, classes |-> <<>>, variables |-> <<>>,
     imports |-> <<>>, calls |-> <<>>, inherits |-> <<>>]


(***************************************************************************)
(* codeintel/graph.py                                                      *)
(*                                                                         *)
(* An nx.DiGraph is its nodes in insertion order, the attribute dict of    *)
(* each node, its edges in insertion order (from which the order of each   *)
(* node's successors and predecessors follows) and the type of each edge.  *)
(* A node attribute that was never set is Absent (<<>> for a text).        *)
(***************************************************************************)
NODE_FILE == "File"
NODE_FUNCTION == "Function"
NODE_CLASS == "Class"

EDGE_CALLS == "CALLS"
EDGE_IMPORTS == "IMPORTS"
EDGE_INHERITS == "INHERITS"

EmptyMap == [k \in {} |-> <<>>]

EmptyGraph == [nodes |-> <<>>, attr |-> EmptyMap, edges |-> <<>>, etype |-> EmptyMap]

NodeAttrs(type, name, qualname, path, external) ==
    [type |-> type, name |-> name, qualname |-> qualname, path |-> path,
     external |-> external]

\* the attribute dict of a node that add_edge had to create
NoAttrs == NodeAttrs(Absent, <<>>, <<>>, Absent, Absent)

HasNode(g, id) == id \in DOMAIN g.attr
HasEdge(g, u, v) == <<u, v>> \in DOMAIN g.etype

\* nx.DiGraph.add_node on a node that is not in the graph
AddNode(g, id, attrs) ==
    [g EXCEPT !.nodes = Append(@, id), !.attr = (id :> attrs) @@ @]

\* nx.DiGraph.add_edge(u, v, type=t): missing endpoints are created bare; an
\* existing edge keeps its place and has its type overwritten
AddEdge(g, u, v, t) ==
    LET g1 == IF HasNode(g, u) THEN g ELSE AddNode(g, u, NoAttrs)
        g2 == IF HasNode(g1, v) THEN g1 ELSE AddNode(g1, v, NoAttrs)
    IN [g2 EXCEPT
          !.edges = IF HasEdge(g2, u, v) THEN @ ELSE Append(@, <<u, v>>),
          !.etype = (<<u, v>> :> t) @@ @]

file_node_id(path) == <<"file", path, <<>>>>

module_node_id(name) == <<"module", "", name>>

\* path == NoneVal or "" is falsy
function_node_id(path, qualname) ==
    IF path \notin {NoneVal, ""} THEN <<"func", path, qualname>>
    ELSE <<"func", "external", qualname>>

class_node_id(path, qualname) ==
    IF path \notin {NoneVal, ""} THEN <<"class", path, qualname>>
    ELSE <<"class", "external", qualname>>

_ensure_node(g, id, attrs) == IF HasNode(g, id) THEN g ELSE AddNode(g, id, attrs)

EmptyIndex ==
    [func_by_path_qual |-> EmptyMap, func_by_path_name |-> EmptyMap,
     func_by_qual |-> EmptyMap, func_by_name |-> EmptyMap,
     class_by_path_qual |-> EmptyMap, class_by_qual |-> EmptyMap,
     class_by_name |-> EmptyMap]

\* d[k] = v
Put(d, k, v) == (k :> v) @@ d

\* d.setdefault(k, []).append(v)
Push(d, k, v) == (k :> (IF k \in DOMAIN d THEN Append(d[k], v) ELSE <<v>>)) @@ d

\* d.get(k)
Get(d, k) == IF k \in DOMAIN d THEN d[k] ELSE <<>>

add_function(ix, path, symbol, node_id) ==
    [ix EXCEPT
       !.func_by_path_qual = Put(@, <<path, symbol.qualname>>, node_id),
       !.func_by_path_name = Put(@, <<path, <<symbol.name>>>>, node_id),
       !.func_by_qual = Push(@, symbol.qualname, node_id),
       !.func_by_name = Push(@, <<symbol.name>>, node_id)]

add_class(ix, path, symbol, node_id) ==
    [ix EXCEPT
       !.class_by_path_qual = Put(@, <<path, symbol.qualname>>, node_id),
       !.class_by_qual = Push(@, symbol.qualname, node_id),
       !.class_by_name = Push(@, <<symbol.name>>, node_id)]

\* None as a node id
NoneId == <<"none", "", <<>>>>

\* None when the bucket is missing or empty
_first(values) == IF values = <<>> THEN NoneId ELSE values[1]

\* mutant: a dotted name that misses falls back to the bare name of its last
\* segment
ResolveFunctionBareFallback(ix, path, name) ==
    IF name = <<>> THEN NoneId
    ELSE IF <<path, name>> \in DOMAIN ix.func_by_path_qual
        THEN ix.func_by_path_qual[<<path, name>>]
    ELSE IF Get(ix.func_by_qual, name) # <<>> THEN ix.func_by_qual[name][1]
    ELSE IF <<path, <<Last(name)>>>> \in DOMAIN ix.func_by_path_name
        THEN ix.func_by_path_name[<<path, <<Last(name)>>>>]
    ELSE _first(Get(ix.func_by_name, <<Last(name)>>))

\* mutant: the (path, bare name) table is not consulted
ResolveFunctionGlobalOnly(ix, path, name) ==
    IF name = <<>> THEN NoneId
    ELSE IF Len(name) > 1 THEN
        IF <<path, name>> \in DOMAIN ix.func_by_path_qual
        THEN ix.func_by_path_qual[<<path, name>>]
        ELSE _first(Get(ix.func_by_qual, name))
    ELSE _first(Get(ix.func_by_name, name))

resolve_function(ix, path, name) ==
    IF name = <<>> THEN NoneId
    ELSE IF Len(name) > 1 THEN
        IF <<path, name>> \in DOMAIN ix.func_by_path_qual
        THEN ix.func_by_path_qual[<<path, name>>]
        ELSE _first(Get(ix.func_by_qual, name))
    ELSE IF <<path, name>> \in DOMAIN ix.func_by_path_name
        THEN ix.func_by_path_name[<<path, name>>]
        ELSE _first(Get(ix.func_by_name, name))

resolve_class(ix, path, name) ==
    IF name = <<>> THEN NoneId
    ELSE IF Len(name) > 1 THEN
        IF <<path, name>> \in DOMAIN ix.class_by_path_qual
        THEN ix.class_by_path_qual[<<path, name>>]
        ELSE _first(Get(ix.class_by_qual, name))
    ELSE IF <<path, name>> \in DOMAIN ix.class_by_path_qual
        THEN ix.class_by_path_qual[<<path, name>>]
        ELSE _first(Get(ix.class_by_name, name))


Falsy(path) == path \in {NoneVal, ""}

\* pass 1, one symbol of entry["functions"]
Pass1Function(st, path, symbol) ==
    LET node_id == function_node_id(path, symbol.qualname)
    IN [g |-> _ensure_node(st.g, node_id,
                 NodeAttrs(NODE_FUNCTION, <<symbol.name>>, symbol.qualname, path, Absent)),
        ix |-> add_function(st.ix, path, symbol, node_id)]

\* pass 1, one symbol of entry["classes"]
Pass1Class(st, path, symbol) ==
    LET node_id == class_node_id(path, symbol.qualname)
    IN [g |-> _ensure_node(st.g, node_id,
                 NodeAttrs(NODE_CLASS, <<symbol.name>>, symbol.qualname, path, Absent)),
        ix |-> add_class(st.ix, path, symbol, node_id)]

RECURSIVE Pass1Functions(_, _, _, _)
Pass1Functions(st, path, syms, i) ==
    IF i > Len(syms) THEN st
    ELSE Pass1Functions(Pass1Function(st, path, syms[i]), path, syms, i + 1)

RECURSIVE Pass1Classes(_, _, _, _)
Pass1Classes(st, path, syms, i) ==
    IF i > Len(syms) THEN st
    ELSE Pass1Classes(Pass1Class(st, path, syms[i]), path, syms, i + 1)

\* the body of build_graph's first loop for one entry
Pass1Entry(st, entry) ==
    IF Falsy(entry.path) THEN st
    ELSE
        LET st0 == [st EXCEPT !.g = _ensure_node(@, file_node_id(entry.path),
                        NodeAttrs(NODE_FILE, <<entry.path>>, <<>>, entry.path, Absent))]
            st1 == Pass1Functions(st0, entry.path, entry.functions, 1)
        IN Pass1Classes(st1, entry.path, entry.classes, 1)

\* the targets of one import item
ImportTargets(item) ==
    IF item.kind = "import" THEN item.names
    ELSE IF item.module # <<>> THEN <<item.module>> ELSE <<>>

\* the type given to the node of an imported module (graph.py 156)
ImportNodeType == NODE_FILE

RECURSIVE AddImportTargets(_, _, _, _)
AddImportTargets(g, file_id, targets, i) ==
    IF i > Len(targets) THEN g
    ELSE
        LET module_id == module_node_id(targets[i])
            g1 == _ensure_node(g, module_id,
                      NodeAttrs(ImportNodeType, targets[i], <<>>, NoneVal, "True"))
        IN AddImportTargets(AddEdge(g1, file_id, module_id, EDGE_IMPORTS),
                            file_id, targets, i + 1)

_add_import_edges(g, file_id, item) ==
    AddImportTargets(g, file_id, ImportTargets(item), 1)

RECURSIVE Pass2Imports(_, _, _, _)
Pass2Imports(g, file_id, items, i) ==
    IF i > Len(items) THEN g
    ELSE Pass2Imports(_add_import_edges(g, file_id, items[i]), file_id, items, i + 1)

RECURSIVE InheritBases(_, _, _, _, _, _)
InheritBases(g, ix, path, sub_id, bases, i) ==
    IF i > Len(bases) THEN g
    ELSE
        LET base == bases[i]
            found == resolve_class(ix, path, base)
            base_id == IF found = NoneId THEN class_node_id(NoneVal, base) ELSE found
            g1 == IF found = NoneId
                  THEN _ensure_node(g, base_id,
                           NodeAttrs(NODE_CLASS, base, base, NoneVal, "True"))
                  ELSE g
        IN InheritBases(AddEdge(g1, sub_id, base_id, EDGE_INHERITS),
                        ix, path, sub_id, bases, i + 1)

\* pass 2, one inheritance fact
Pass2Inherit(g, ix, path, inherit) ==
    LET sub_id == resolve_class(ix, path, inherit.class_name)
    IN IF sub_id = NoneId THEN g
       ELSE InheritBases(g, ix, path, sub_id, inherit.bases, 1)

RECURSIVE Pass2Inherits(_, _, _, _, _)
Pass2Inherits(g, ix, path, facts, i) ==
    IF i > Len(facts) THEN g
    ELSE Pass2Inherits(Pass2Inherit(g, ix, path, facts[i]), ix, path, facts, i + 1)

\* mutant: the placeholder of an unresolved callee is given the caller's path
Pass2CallKeepsPath(g, ix, path, call) ==
    LET caller_id == resolve_function(ix, path, call.caller)
        found == resolve_function(ix, path, call.name)
        target_id == IF found = NoneId THEN function_node_id(NoneVal, call.name)
                     ELSE found
        g1 == IF found = NoneId
              THEN _ensure_node(g, target_id,
                       NodeAttrs(NODE_FUNCTION, <<Last(call.name)>>, call.name,
                                 path, "True"))
              ELSE g
    IN IF caller_id = NoneId THEN g
       ELSE AddEdge(g1, caller_id, target_id, EDGE_CALLS)

\* mutant: the edge to an unresolved callee is added without its placeholder
Pass2CallNoEnsure(g, ix, path, call) ==
    LET caller_id == resolve_function(ix, path, call.caller)
        found == resolve_function(ix, path, call.name)
        target_id == IF found = NoneId THEN function_node_id(NoneVal, call.name)
                     ELSE found
    IN IF caller_id = NoneId THEN g
       ELSE AddEdge(g, caller_id, target_id, EDGE_CALLS)

\* mutant: a call fact without an indexed caller is attached to the File node
Pass2CallFromFile(g, ix, path, call) ==
    LET caller_id == resolve_function(ix, path, call.caller)
        found == resolve_function(ix, path, call.name)
        target_id == IF found = NoneId THEN function_node_id(NoneVal, call.name)
                     ELSE found
        g1 == IF found = NoneId
              THEN _ensure_node(g, target_id,
                       NodeAttrs(NODE_FUNCTION, <<Last(call.name)>>, call.name,
                                 NoneVal, "True"))
              ELSE g
    IN AddEdge(g1, IF caller_id = NoneId THEN file_node_id(path) ELSE caller_id,
               target_id, EDGE_CALLS)

\* pass 2, one call fact
Pass2Call(g, ix, path, call) ==
    LET caller_id == resolve_function(ix, path, call.caller)
        found == resolve_function(ix, path, call.name)
        target_id == IF found = NoneId THEN function_node_id(NoneVal, call.name)
                     ELSE found
        g1 == IF found = NoneId
              THEN _ensure_node(g, target_id,
                       NodeAttrs(NODE_FUNCTION, <<Last(call.name)>>, call.name,
                                 NoneVal, "True"))
              ELSE g
    IN IF caller_id = NoneId THEN g
       ELSE AddEdge(g1, caller_id, target_id, EDGE_CALLS)

RECURSIVE Pass2Calls(_, _, _, _, _)
Pass2Calls(g, ix, path, facts, i) ==
    IF i > Len(facts) THEN g
    ELSE Pass2Calls(Pass2Call(g, ix, path, facts[i]), ix, path, facts, i + 1)

\* the body of build_graph's second loop for one entry
Pass2Entry(g, ix, entry) ==
    IF Falsy(entry.path) THEN g
    ELSE
        LET g1 == Pass2Imports(g, file_node_id(entry.path), entry.imports, 1)
            g2 == Pass2Inherits(g1, ix, entry.path, entry.inherits, 1)
        IN Pass2Calls(g2, ix, entry.path, entry.calls, 1)


(***************************************************************************)
(* codeintel/storage.py : the node-link JSON document.                     *)
(***************************************************************************)
\* G.successors(u), in the order the edges were first added
Successors(g, u) ==
    LET hits == SelectSeq(g.edges, LAMBDA e : e[1] = u)
    IN [i \in 1..Len(hits) |-> hits[i][2]]

\* G.predecessors(v), in the order the edges were first added
Predecessors(g, v) ==
    LET hits == SelectSeq(g.edges, LAMBDA e : e[2] = v)
    IN [i \in 1..Len(hits) |-> hits[i][1]]

RECURSIVE EdgesFrom(_, _)
\* G.edges: for each node in node order, its out-edges in successor order
EdgesFrom(g, i) ==
    IF i > Len(g.nodes) THEN <<>>
    ELSE SelectSeq(g.edges, LAMBDA e : e[1] = g.nodes[i]) \o EdgesFrom(g, i + 1)

GraphEdges(g) == EdgesFrom(g, 1)

\* json.dumps / json.loads of an attribute value: None is null, True is true,
\* a str is a string; a key that is not in the dict is not in the object.
JsonScalar(v) ==
    IF v = Absent THEN <<"absent", "">>
    ELSE IF v = NoneVal THEN <<"null", "">>
    ELSE IF v = "True" THEN <<"true", "">>
    ELSE <<"string", v>>

\* mutant: a null is read back as a missing key
FromJsonScalarDropsNull(j) ==
    IF j[1] \in {"absent", "null"} THEN Absent
    ELSE IF j[1] = "true" THEN "True"
    ELSE j[2]

FromJsonScalar(j) ==
    IF j[1] = "absent" THEN Absent
    ELSE IF j[1] = "null" THEN NoneVal
    ELSE IF j[1] = "true" THEN "True"
    ELSE j[2]

JsonText(t) == IF t = <<>> THEN <<"absent", <<>>>> ELSE <<"string", t>>

FromJsonText(j) == IF j[1] = "absent" THEN <<>> ELSE j[2]

\* json_graph.node_link_data : {**attrs, "id": n} per node,
\* {**attrs, "source": u, "target": v} per edge
node_link_data(g) ==
    [directed |-> TRUE,
     nodes |-> [i \in 1..Len(g.nodes) |->
                  LET a == g.attr[g.nodes[i]]
                  IN [id |-> g.nodes[i],
                      type |-> JsonScalar(a.type), name |-> JsonText(a.name),
                      qualname |-> JsonText(a.qualname), path |-> JsonScalar(a.path),
                      external |-> JsonScalar(a.external)]],
     links |-> LET es == GraphEdges(g)
               IN [i \in 1..Len(es) |->
                     [source |-> es[i][1], target |-> es[i][2],
                      type |-> JsonScalar(g.etype[es[i]])]]]

save_graph(g) == node_link_data(g)

RECURSIVE LoadNodes(_, _, _)
LoadNodes(g, nodes, i) ==
    IF i > Len(nodes) THEN g
    ELSE
        LET d == nodes[i]
            a == NodeAttrs(FromJsonScalar(d.type), FromJsonText(d.name),
                           FromJsonText(d.qualname), FromJsonScalar(d.path),
                           FromJsonScalar(d.external))
            g1 == IF HasNode(g, d.id) THEN [g EXCEPT !.attr[d.id] = a]
                  ELSE AddNode(g, d.id, a)
        IN LoadNodes(g1, nodes, i + 1)

RECURSIVE LoadLinks(_, _, _)
LoadLinks(g, links, i) ==
    IF i > Len(links) THEN g
    ELSE LoadLinks(AddEdge(g, links[i].source, links[i].target,
                           FromJsonScalar(links[i].type)), links, i + 1)

\* json_graph.node_link_graph(data, directed=True)
node_link_graph(data) ==
    LoadLinks(LoadNodes(EmptyGraph, data.nodes, 1), data.links, 1)

load_graph(data) == node_link_graph(data)

NoDoc == [directed |-> TRUE, nodes |-> <<>>, links |-> <<>>]


(***************************************************************************)
(* Inputs.                                                                 *)
(***************************************************************************)
\* the greatest depth of nested definitions in a generated syntax tree
MaxDepth == 3
\* the greatest number of entries given to build_graph
MaxFiles == 2

SelfHelper == CallExpr(Attribute(Identifier("self"), Identifier("helper")), <<>>)
FooMethod == CallExpr(Attribute(Identifier("foo"), Identifier("method")), <<>>)
NewFooMethod ==
    CallExpr(Attribute(CallExpr(Identifier("Foo"), <<>>), Identifier("method")), <<>>)
PlainHelper == CallExpr(Identifier("helper"), <<>>)

Statements == {SelfHelper, FooMethod, NewFooMethod, PlainHelper}

DefNames == {"Foo", "helper"}

\* a definition (function, class, or a function_definition whose name field
\* is missing) around a body
Definition(kind, name, body) ==
    CASE kind = "function" -> FunctionDef(name, body)
      [] kind = "class" -> ClassDef(name, <<>>, body)
      [] OTHER -> FunctionDef(NoneVal, body)

DefShapes == ({"function", "class"} \X DefNames) \cup {<<"nameless", "helper">>}

RECURSIVE Nested(_)
\* statements under at most d nested definitions
Nested(d) ==
    IF d = 0 THEN Statements
    ELSE Statements \cup
         {Definition(k[1], k[2], <<c>>) : k \in DefShapes, c \in Nested(d - 1)}

\* the sample of tests/test_graph.py, with the call in bar() written either way
Sample(barCall) ==
    Module(<<
        ImportStatement("import_statement",
            <<ImportItem("import", <<>>, <<<<"os">>, <<"json">>>>)>>),
        ImportStatement("import_from_statement",
            <<ImportItem("from", <<"sys">>, <<<<"path">>>>)>>),
        ClassDef("Foo", <<>>, <<
            FunctionDef("helper", <<
                CallExpr(Attribute(Attribute(Identifier("os"), Identifier("path")),
                                   Identifier("join")), <<>>)>>),
            FunctionDef("method", <<SelfHelper, CallExpr(Identifier("print"), <<>>)>>)>>),
        ClassDef("Bar", <<Identifier("Foo")>>, <<>>),
        FunctionDef("bar", <<
            Assignment(Identifier("foo"), CallExpr(Identifier("Foo"), <<>>)),
            barCall>>)>>)

Trees ==
    {Module(<<c>>) : c \in Nested(MaxDepth)}
    \cup {Module(<<c, d>>) : c \in Nested(1), d \in Nested(1)}
    \cup {Module(<<Definition(k[1], k[2], <<c, d>>)>>) :
             k \in DefShapes, c \in Nested(1), d \in Nested(1)}
    \cup {Sample(FooMethod), Sample(NewFooMethod)}

ExtractPaths == {"f.py"}


\* the facts given to build_graph directly
Fbar == Symbol("function", "bar", <<"bar">>)
FXbar == Symbol("function", "bar", <<"X", "bar">>)
CX == Symbol("class", "X", <<"X">>)
CY == Symbol("class", "Y", <<"Y">>)
ImportOsJson == ImportItem("import", <<>>, <<<<"os">>, <<"json">>>>)
FromSysPath == ImportItem("from", <<"sys">>, <<<<"path">>>>)
FromDotX == ImportItem("from", <<>>, <<<<"x">>>>)
BarCallsBar == Call(<<"bar">>, <<"bar">>)
BarCallsFooMethod == Call(<<"foo", "method">>, <<"bar">>)
ModuleCallsPrint == Call(<<"print">>, <<>>)
XbarCallsXbar == Call(<<"X", "bar">>, <<"X", "bar">>)

Entry(path, functions, classes, imports, calls, inherits) ==
    [path |-> path, functions |-> functions, classes |-> classes,
     variables |-> <<>>, imports |-> imports, calls |-> calls, inherits |-> inherits]

EntriesOf(path) ==
    { Entry(path, <<>>, <<>>, <<>>, <<>>, <<>>),
      Entry(path, <<Fbar>>, <<>>, <<>>, <<BarCallsBar, BarCallsFooMethod>>, <<>>),
      Entry(path, <<Fbar, FXbar>>, <<CX>>, <<>>, <<BarCallsBar, XbarCallsXbar>>, <<>>),
      Entry(path, <<FXbar, Fbar>>, <<CX>>, <<>>,
            <<BarCallsFooMethod, ModuleCallsPrint>>, <<>>),
      Entry(path, <<>>, <<>>, <<>>, <<BarCallsBar, XbarCallsXbar>>, <<>>),
      Entry(path, <<>>, <<CX, CY>>, <<ImportOsJson>>, <<>>,
            <<Inheritance(<<"Y">>, <<<<"X">>>>)>>),
      Entry(path, <<>>, <<CY>>, <<>>, <<>>,
            <<Inheritance(<<"Y">>, <<<<"X">>, <<"m", "Z">>>>)>>),
      Entry(path, <<>>, <<>>, <<FromDotX>>, <<>>,
            <<Inheritance(<<"X">>, <<<<"Y">>>>)>>),
      Entry(path, <<Fbar, Fbar>>, <<>>, <<ImportOsJson, FromSysPath, ImportOsJson>>,
            <<BarCallsBar, BarCallsBar>>, <<>>),
      Entry(path, <<Fbar, FXbar, Fbar>>, <<CX>>, <<>>, <<BarCallsFooMethod>>, <<>>) }

\* "external" is a path like any other; "" is a falsy path
BuildPaths == {"a.py", "external"}

Entries ==
    UNION {EntriesOf(p) : p \in BuildPaths}
    \cup {Entry("", <<Fbar>>, <<CX>>, <<ImportOsJson>>, <<BarCallsBar>>, <<>>)}

RECURSIVE SeqsUpTo(_, _)
\* the sequences over S of length at most n
SeqsUpTo(S, n) ==
    IF n = 0 THEN {<<>>}
    ELSE LET shorter == SeqsUpTo(S, n - 1)
         IN shorter \cup {Append(q, x) : q \in shorter, x \in S}

ResolvePaths == BuildPaths \cup {"c.py"}
ResolveNames == {<<"bar">>, <<"X", "bar">>, <<"foo", "method">>, <<>>}

NoQuery == [op |-> "none"]
NoAnswer == [op |-> "none"]
NoChat == [calls |-> <<>>]
NoService == [nodes |-> <<>>, exact_index |-> <<>>]

(***************************************************************************)
(* The pipeline: extract_symbols, build_graph, save_graph, load_graph.     *)
(***************************************************************************)
InitCommon ==
    /\ graph = EmptyGraph
    /\ index = EmptyIndex
    /\ doc = NoDoc
    /\ loaded = EmptyGraph
    /\ service = NoService
    /\ query = NoQuery
    /\ answer = NoAnswer
    /\ chat = NoChat

\* extract_symbols(parsed, path) is entered
InitExtract ==
    /\ pc = "extract"
    /\ tree \in Trees
    /\ work = <<VisitItem(tree)>>
    /\ scope = <<>>
    /\ \E p \in ExtractPaths : results = EmptyResults(p)
    /\ extracted = <<>>
    /\ cursor = 0
    /\ InitCommon

\* build_graph(extracted) is entered
InitBuild ==
    /\ pc = "pass1"
    /\ tree = NoNode
    /\ work = <<>>
    /\ scope = <<>>
    /\ results = EmptyResults(NoneVal)
    /\ extracted \in SeqsUpTo(Entries, MaxFiles)
    /\ cursor = 1
    /\ InitCommon

\* one call of walk(node), up to its recursive calls; or the scope.pop() that
\* follows the recursion into a definition
WalkStep ==
    /\ pc = "extract"
    /\ work # <<>>
    /\ LET item == Head(work)
           node == item.node
       IN IF item.op = "pop" THEN
              /\ scope' = ScopePop(scope)
              /\ work' = Tail(work)
              /\ UNCHANGED results
          ELSE
              /\ results' = WalkEmit(node, scope, results)
              /\ IF IsNamedDef(node) THEN
                     /\ scope' = ScopePush(scope, node)
                     /\ work' = Visits(node.kids) \o <<PopItem>> \o Tail(work)
                 ELSE
                     /\ scope' = scope
                     /\ work' = Visits(node.kids) \o Tail(work)
    /\ UNCHANGED <<pc, tree, extracted, graph, index, cursor, doc, loaded, service,
                   query, answer, chat>>

\* extract_symbols returns; build_graph([symbols]) is entered
FinishExtract ==
    /\ pc = "extract"
    /\ work = <<>>
    /\ extracted' = <<results>>
    /\ pc' = "pass1"
    /\ cursor' = 1
    /\ UNCHANGED <<tree, work, scope, results, graph, index, doc, loaded, service,
                   query, answer, chat>>

\* mutant: a single pass, each entry's edges added as soon as it is indexed
Pass1StepSinglePass ==
    /\ pc = "pass1"
    /\ cursor <= Len(extracted)
    /\ LET st == Pass1Entry([g |-> graph, ix |-> index], extracted[cursor])
       IN /\ graph' = Pass2Entry(st.g, st.ix, extracted[cursor])
          /\ index' = st.ix
    /\ cursor' = cursor + 1
    /\ UNCHANGED <<pc, tree, work, scope, results, extracted, doc, loaded, service,
                   query, answer, chat>>

Pass1Step ==
    /\ pc = "pass1"
    /\ cursor <= Len(extracted)
    /\ LET st == Pass1Entry([g |-> graph, ix |-> index], extracted[cursor])
       IN /\ graph' = st.g
          /\ index' = st.ix
    /\ cursor' = cursor + 1
    /\ UNCHANGED <<pc, tree, work, scope, results, extracted, doc, loaded, service,
                   query, answer, chat>>

Pass1Done ==
    /\ pc = "pass1"
    /\ cursor > Len(extracted)
    /\ pc' = "pass2"
    /\ cursor' = 1
    /\ UNCHANGED <<tree, work, scope, results, extracted, graph, index, doc, loaded,
                   service, query, answer, chat>>

Pass2Step ==
    /\ pc = "pass2"
    /\ cursor <= Len(extracted)
    /\ graph' = Pass2Entry(graph, index, extracted[cursor])
    /\ cursor' = cursor + 1
    /\ UNCHANGED <<pc, tree, work, scope, results, extracted, index, doc, loaded,
                   service, query, answer, chat>>

\* build_graph returns
Pass2Done ==
    /\ pc = "pass2"
    /\ cursor > Len(extracted)
    /\ pc' = "built"
    /\ UNCHANGED <<tree, work, scope, results, extracted, graph, index, cursor, doc,
                   loaded, service, query, answer, chat>>

Save ==
    /\ pc = "built"
    /\ doc' = save_graph(graph)
    /\ pc' = "saved"
    /\ UNCHANGED <<tree, work, scope, results, extracted, graph, index, cursor, loaded,
                   service, query, answer, chat>>

Load ==
    /\ pc = "saved"
    /\ loaded' = load_graph(doc)
    /\ pc' = "loaded"
    /\ UNCHANGED <<tree, work, scope, results, extracted, graph, index, cursor, doc,
                   service, query, answer, chat>>

\* index.resolve_function(path, name) on the index of the finished build
Resolve ==
    /\ pc = "built"
    /\ \E p \in ResolvePaths, n \in ResolveNames :
          /\ query' = [op |-> "resolve_function", path |-> p, name |-> n]
          /\ answer' = [op |-> "resolve_function", id |-> resolve_function(index, p, n)]
    /\ pc' = "resolved"
    /\ UNCHANGED <<tree, work, scope, results, extracted, graph, index, cursor, doc,
                   loaded, service, chat>>

NextBuild == Pass1Step \/ Pass1Done \/ Pass2Step \/ Pass2Done \/ Save \/ Load \/ Resolve

NextExtract ==
    WalkStep \/ FinishExtract \/ Pass1Step \/ Pass1Done \/ Pass2Step \/ Pass2Done

Spec == InitBuild /\ [][NextBuild]_vars

SpecExtract == InitExtract /\ [][NextExtract]_vars


(***************************************************************************)
(* The lexical structure of a syntax tree, read off the tree itself.       *)
(***************************************************************************)
RECURSIVE Sites(_, _)
\* every node under `node` with the chain of named definitions that enclose it
\* (outermost first), each a (kind, name) pair
Sites(node, chain) ==
    LET inner == IF IsNamedDef(node) THEN Append(chain, <<DefKind(node), node.name>>)
                 ELSE chain
    IN {[node |-> node, chain |-> chain]}
       \cup UNION {Sites(node.kids[i], inner) : i \in 1..Len(node.kids)}

RECURSIVE DefsInOrder(_, _)
RECURSIVE DefsInOrderOf(_, _, _)
\* the named definitions under `node` in source order, each with the names of
\* its enclosing named definitions followed by its own name
DefsInOrderOf(kids, i, prefix) ==
    IF i > Len(kids) THEN <<>>
    ELSE DefsInOrder(kids[i], prefix) \o DefsInOrderOf(kids, i + 1, prefix)

DefsInOrder(node, prefix) ==
    IF IsNamedDef(node)
    THEN <<Symbol(DefKind(node), node.name, prefix \o <<node.name>>)>>
         \o DefsInOrderOf(node.kids, 1, prefix \o <<node.name>>)
    ELSE DefsInOrderOf(node.kids, 1, prefix)

IsPrefix(s, t) == Len(s) <= Len(t) /\ SubSeq(t, 1, Len(s)) = s

ChainNames(chain) == [i \in 1..Len(chain) |-> chain[i][2]]

\* the statements directly in the body of a definition node
BodyOf(def) == IF def.kids = <<>> THEN {} ELSE Range(Last(def.kids).kids)

\* the text of the function of a call node
CalleeText(call) == call.kids[1].text

ExtractionDone == pc # "extract" \/ work = <<>>

(***************************************************************************)
(* C1.  Every function or class definition emitted by extract_symbols, at  *)
(* any nesting depth, has as qualified name the names of its enclosing     *)
(* function/class definitions, outermost first, followed by its own name   *)
(* (a top-level definition: its bare name); and the scope stack is empty   *)
(* again when the extraction has finished.                                 *)
(***************************************************************************)
C1_QualifiedNames ==
    LET expected == DefsInOrder(tree, <<>>)
        functions == SelectSeq(expected, LAMBDA d : d.kind = "function")
        classes == SelectSeq(expected, LAMBDA d : d.kind = "class")
    IN /\ IsPrefix(results.functions, functions)
       /\ IsPrefix(results.classes, classes)
       /\ ExtractionDone =>
             /\ results.functions = functions
             /\ results.classes = classes
             /\ scope = <<>>

\* the extraction has finished and emitted a function nested three deep
C1_Witness ==
    /\ pc = "pass1"
    /\ scope = <<>>
    /\ \E i \in 1..Len(results.functions) : Len(results.functions[i].qualname) = 3

(***************************************************************************)
(* C6.  For a class C of file p (qualified name Q) with methods m and h,   *)
(* where the body of m holds the call self.h(), the built graph has the    *)
(* nodes class:p:Q, func:p:Q.m and func:p:Q.h and a CALLS edge             *)
(* func:p:Q.m -> func:p:Q.h; and for a class D(C) of the same file, C a    *)
(* top-level class, it has an INHERITS edge class:p:D -> class:p:C.        *)
(***************************************************************************)
IsMethodOf(f, c) == f \in BodyOf(c) /\ f.type = "function_definition" /\ f.name # NoneVal

IsSelfCall(stmt, h) ==
    stmt.type = "call" /\ stmt.kids # <<>> /\ CalleeText(stmt) = <<"self", h>>

LexFunction(chain) ==
    LET idx == InnermostOf(chain, "function")
    IN IF idx = 0 THEN <<>> ELSE ChainNames(SubSeq(chain, 1, idx))

\* the call sites inside a function whose callee is an attribute of something
\* other than self
InstanceCalls ==
    {s \in Sites(tree, <<>>) :
        /\ s.node.type = "call"
        /\ s.node.kids # <<>>
        /\ Len(CalleeText(s.node)) >= 2
        /\ CalleeText(s.node)[1] # "self"
        /\ LexFunction(s.chain) # <<>>}

FunctionsNamed(p, bare) ==
    {u \in DOMAIN graph.attr :
        /\ graph.attr[u].type = NODE_FUNCTION
        /\ graph.attr[u].path = p
        /\ graph.attr[u].name = <<bare>>}

C7_Original ==
    pc = "built" =>
      LET p == extracted[1].path
      IN \A s \in InstanceCalls :
           LET t == CalleeText(s.node)
               Q == LexFunction(s.chain)
               methods == FunctionsNamed(p, Last(t))
           IN (Len(Q) = 1 /\ methods # {}) =>
                \E u \in methods : HasEdge(graph, <<"func", p, Q>>, u)

(***************************************************************************)
(* C7, amended.  The callee of such a call keeps its dotted text           *)
(* (foo.method, Foo().method); resolve_function looks a dotted name up in  *)
(* the qualified-name tables only, so when no function has that qualified  *)
(* name the CALLS edge goes from the calling function's node (a Function   *)
(* node of the file with the caller's bare name; func:p:Q itself when no   *)
(* other function of the file shares that bare name) to the external       *)
(* placeholder func:external:<dotted callee text>.                         *)
(***************************************************************************)
C7_InstanceCallIsExternal ==
    pc = "built" =>
      LET p == extracted[1].path
      IN \A s \in InstanceCalls :
           LET t == CalleeText(s.node)
               Q == LexFunction(s.chain)
               callers == FunctionsNamed(p, Last(Q))
               ext == <<"func", "external", t>>
           IN (\A f \in Range(results.functions) : f.qualname # t) =>
                /\ HasNode(graph, ext)
                /\ graph.attr[ext].external = "True"
                /\ graph.attr[ext].path = NoneVal
                /\ \E u \in callers :
                      /\ HasEdge(graph, u, ext)
                      /\ graph.etype[<<u, ext>>] = EDGE_CALLS
                      /\ (callers = {<<"func", p, Q>>} => u = <<"func", p, Q>>)

\* the sample's bar() calls Foo().method(): the edge goes to the placeholder
C7_Witness ==
    /\ pc = "built"
    /\ tree = Sample(NewFooMethod)
    /\ HasEdge(graph, <<"func", "f.py", <<"bar">>>>,
                      <<"func", "external", <<"Foo()", "method">>>>)
    /\ HasNode(graph, <<"func", "f.py", <<"Foo", "method">>>>)


(***************************************************************************)
(* C2.  When two files each define a function with the same bare name,     *)
(* resolve_function(A, bareName) returns a node of file A for each         *)
(* defining file A, whichever was indexed first, and from a file that      *)
(* defines no function of that bare name it returns a node of the          *)
(* defining file that was indexed first.                                   *)
(***************************************************************************)
\* the positions of the entries that pass 1 indexes and that define a function
\* with this bare name
DefiningEntries(bare) ==
    {i \in 1..Len(extracted) :
        /\ ~Falsy(extracted[i].path)
        /\ \E f \in Range(extracted[i].functions) : f.name = bare}

DefiningPaths(bare) == {extracted[i].path : i \in DefiningEntries(bare)}

FirstDefiningPath(bare) ==
    LET is == DefiningEntries(bare)
    IN extracted[CHOOSE i \in is : \A j \in is : i <= j].path

IsFunctionOf(id, path, bare) ==
    /\ HasNode(graph, id)
    /\ graph.attr[id].type = NODE_FUNCTION
    /\ graph.attr[id].path = path
    /\ graph.attr[id].name = <<bare>>

C2_LocalBeforeGlobal ==
    (pc = "resolved" /\ Len(query.name) = 1) =>
      LET bare == query.name[1]
      IN Cardinality(DefiningPaths(bare)) >= 2 =>
           IF query.path \in DefiningPaths(bare)
           THEN IsFunctionOf(answer.id, query.path, bare)
           ELSE IsFunctionOf(answer.id, FirstDefiningPath(bare), bare)

\* the bare name was resolved from the defining file that was indexed second
C2_Witness ==
    /\ pc = "resolved"
    /\ Len(query.name) = 1
    /\ Cardinality(DefiningPaths(query.name[1])) >= 2
    /\ query.path \in DefiningPaths(query.name[1])
    /\ query.path # FirstDefiningPath(query.name[1])
    /\ graph.attr[answer.id].path = query.path

(***************************************************************************)
(* C3.  For every graph G that build_graph produces, load_graph of what    *)
(* save_graph wrote has the same node ids, as many nodes and edges, the    *)
(* same (source, target) pairs and the same attribute values on every node *)
(* and edge, a null path and external = true included.                     *)
(***************************************************************************)
C3_RoundTrip ==
    pc = "loaded" =>
      /\ Range(loaded.nodes) = Range(graph.nodes)
      /\ Len(loaded.nodes) = Len(graph.nodes)
      /\ Len(loaded.edges) = Len(graph.edges)
      /\ Range(loaded.edges) = Range(graph.edges)
      /\ DOMAIN loaded.attr = DOMAIN graph.attr
      /\ \A n \in DOMAIN graph.attr : loaded.attr[n] = graph.attr[n]
      /\ DOMAIN loaded.etype = DOMAIN graph.etype
      /\ \A e \in DOMAIN graph.etype : loaded.etype[e] = graph.etype[e]

\* a graph with an external node was read back, its edges in another order
C3_Witness ==
    /\ pc = "loaded"
    /\ \E n \in DOMAIN graph.attr :
          graph.attr[n].external = "True" /\ graph.attr[n].path = NoneVal
    /\ loaded.edges # graph.edges

(***************************************************************************)
(* C9.  Every target of an IMPORTS edge is an external node of type Module *)
(* with id module:<name>, one per imported name of a plain import and one  *)
(* for the module of a from-import (the imported names never become        *)
(* nodes); the source of every IMPORTS edge is the File node of the        *)
(* importing file.                                                         *)
(***************************************************************************)
\* the module names that the imports of the indexed files ask for
ImportedModules ==
    UNION {UNION {Range(ImportTargets(item)) : item \in Range(extracted[i].imports)} :
             i \in {j \in 1..Len(extracted) : ~Falsy(extracted[j].path)}}

\* the claim but for the type of the target
ImportEdgesWellFormed ==
    /\ \A e \in DOMAIN graph.etype :
          graph.etype[e] = EDGE_IMPORTS =>
            /\ graph.attr[e[2]].external = "True"
            /\ graph.attr[e[2]].path = NoneVal
            /\ \E name \in ImportedModules : e[2] = <<"module", "", name>>
            /\ graph.attr[e[1]].type = NODE_FILE
            /\ e[1] = <<"file", graph.attr[e[1]].path, <<>>>>
    /\ \A n \in DOMAIN graph.attr : n[1] = "module" => n[3] \in ImportedModules
    /\ pc = "built" =>
          \A i \in 1..Len(extracted) :
            ~Falsy(extracted[i].path) =>
              \A item \in Range(extracted[i].imports) :
                \A name \in Range(ImportTargets(item)) :
                  /\ HasEdge(graph, <<"file", extracted[i].path, <<>>>>,
                                    <<"module", "", name>>)
                  /\ graph.etype[<<<<"file", extracted[i].path, <<>>>>,
                                   <<"module", "", name>>>>] = EDGE_IMPORTS

C9_ImportTargetsAreModules ==
    /\ ImportEdgesWellFormed
    /\ \A e \in DOMAIN graph.etype :
          graph.etype[e] = EDGE_IMPORTS => graph.attr[e[2]].type = "Module"

(***************************************************************************)
(* C10.  In every graph of build_graph a node has external = true exactly  *)
(* when its path is null: the nodes synthesized in pass 2 have both, and   *)
(* no File, Function or Class node of pass 1 is ever marked external or    *)
(* given a null path, whatever is referenced later.                        *)
(***************************************************************************)
\* the entries that pass 1 has gone through
Indexed ==
    {i \in 1..Len(extracted) :
        ~Falsy(extracted[i].path) /\ (pc = "pass1" => i < cursor)}

Pass1Ids ==
    UNION {
      LET e == extracted[i]
      IN {[id |-> <<"file", e.path, <<>>>>, path |-> e.path]}
         \cup {[id |-> <<"func", e.path, f.qualname>>, path |-> e.path] :
                 f \in Range(e.functions)}
         \cup {[id |-> <<"class", e.path, c.qualname>>, path |-> e.path] :
                 c \in Range(e.classes)}
      : i \in Indexed}

C10_ExternalIffNoPath ==
    /\ \A n \in DOMAIN graph.attr :
          (graph.attr[n].external = "True") <=> (graph.attr[n].path \in {NoneVal, Absent})
    /\ \A d \in Pass1Ids :
          /\ HasNode(graph, d.id)
          /\ graph.attr[d.id].path = d.path
          /\ graph.attr[d.id].external = Absent

\* a file whose path is "external" was indexed beside placeholders of
\* unresolved references
C10_Witness ==
    /\ pc = "built"
    /\ \E n \in DOMAIN graph.attr :
          graph.attr[n].type = NODE_FUNCTION /\ graph.attr[n].path = "external"
    /\ \E n \in DOMAIN graph.attr :
          graph.attr[n].type = NODE_FUNCTION /\ graph.attr[n].external = "True"
    /\ \E n \in DOMAIN graph.attr :
          graph.attr[n].type = NODE_CLASS /\ graph.attr[n].external = "True"


(***************************************************************************)
(* The query service (codeintel/mcp_graph.py).  The service lower-cases    *)
(* its texts and searches inside them, so in a graph that is served a str  *)
(* is the sequence of its characters, a node id is such a str, and         *)
(* str.lower, str() and the `in` of two strs are computed on characters.   *)
(***************************************************************************)
\* None where a str is expected
PyNone == <<"<None>">>

\* str(value)
Str(value) == IF value = PyNone THEN <<"N", "o", "n", "e">> ELSE value

LowerChar(c) ==
    CASE c = "F" -> "f"
      [] c = "G" -> "g"
      [] c = "N" -> "n"
      [] c = "P" -> "p"
      [] OTHER -> c

\* value.lower()
Lower(value) == [i \in 1..Len(value) |-> LowerChar(value[i])]

\* needle in haystack
Contains(needle, haystack) ==
    \E i \in 0..(Len(haystack) - Len(needle)) :
        SubSeq(haystack, i + 1, i + Len(needle)) = needle

\* bool(value) of a str or None
Truthy(value) == value # PyNone /\ value # <<>>

\* edge_types=None; a list of edge types is the set of its elements
NoFilter == {NoneVal}

EmptyExactIndex ==
    [id |-> EmptyMap, name |-> EmptyMap, qualname |-> EmptyMap, path |-> EmptyMap]

_index_exact(exact_index, key, value, node_id) ==
    [exact_index EXCEPT ![key] = Push(@, Lower(value), node_id)]

\* the node dict that _build_indexes makes of a graph node
ServiceNode(node_id, data) ==
    [id |-> node_id, type |-> data.type, name |-> data.name,
     qualname |-> data.qualname, path |-> data.path,
     external |-> (data.external = "True")]

RECURSIVE BuildIndexesFrom(_, _, _)
BuildIndexesFrom(g, i, svc) ==
    IF i > Len(g.nodes) THEN svc
    ELSE LET node_id == g.nodes[i]
             node == ServiceNode(node_id, g.attr[node_id])
             ix1 == _index_exact(svc.exact_index, "id", node_id, node_id)
             ix2 == IF Truthy(node.name)
                    THEN _index_exact(ix1, "name", node.name, node_id) ELSE ix1
             ix3 == IF Truthy(node.qualname)
                    THEN _index_exact(ix2, "qualname", node.qualname, node_id) ELSE ix2
             ix4 == IF Truthy(node.path)
                    THEN _index_exact(ix3, "path", node.path, node_id) ELSE ix3
         IN BuildIndexesFrom(g, i + 1,
                [nodes |-> Append(svc.nodes, node), exact_index |-> ix4])

_build_indexes(g) ==
    BuildIndexesFrom(g, 1, [nodes |-> <<>>, exact_index |-> EmptyExactIndex])

\* self._node_by_id.get(node_id)
NodeById(svc, node_id) ==
    LET hits == SelectSeq(svc.nodes, LAMBDA n : n.id = node_id)
    IN hits[Len(hits)]

_node_view(svc, node_id) == NodeById(svc, node_id)

\* the haystacks of a node that are not empty
Haystacks(node) ==
    {h \in {Str(node.id), Str(node.name), Str(node.qualname), Str(node.path)} :
        h # <<>>}

NodeMatches(node, q, node_types) ==
    /\ node_types \in {NoFilter, {}} \/ node.type \in node_types
    /\ \E h \in Haystacks(node) : Contains(q, Lower(h))

RECURSIVE SearchFrom(_, _, _, _, _, _)
\* the loop of _search_nodes: the limit is looked at after a match is appended
SearchFrom(svc, q, node_types, limit, i, matches) ==
    IF i > Len(svc.nodes) THEN matches
    ELSE IF NodeMatches(svc.nodes[i], q, node_types)
         THEN LET more == Append(matches, svc.nodes[i])
              IN IF Len(more) >= limit THEN more
                 ELSE SearchFrom(svc, q, node_types, limit, i + 1, more)
         ELSE SearchFrom(svc, q, node_types, limit, i + 1, matches)

_search_nodes(svc, query_text, node_types, limit) ==
    SearchFrom(svc, Lower(query_text), node_types, limit, 1, <<>>)

\* mutant: the bucket is not cut
TakeAll(bucket, limit) == bucket

\* bucket[:limit] for a limit >= 0
Take(bucket, limit) ==
    SubSeq(bucket, 1, IF limit < Len(bucket) THEN limit ELSE Len(bucket))

\* the ids that _resolve_seed_nodes returns
_resolve_seed_nodes(svc, query_text, limit) ==
    LET q == Lower(query_text)
        ix == svc.exact_index
    IN IF q \in DOMAIN ix.id THEN Range(ix.id[q])
       ELSE IF Get(ix.qualname, q) # <<>> THEN Range(Take(ix.qualname[q], limit))
       ELSE IF Get(ix.name, q) # <<>> THEN Range(Take(ix.name[q], limit))
       ELSE IF Get(ix.path, q) # <<>> THEN Range(Take(ix.path[q], limit))
       ELSE {m.id : m \in Range(_search_nodes(svc, query_text, NoFilter, limit))}

\* self.graph.get_edge_data(source, target), then data.get("type", "Unknown")
_edge_view(g, edge) ==
    [source |-> edge[1], target |-> edge[2],
     type |-> IF HasEdge(g, edge[1], edge[2]) THEN g.etype[edge] ELSE "Unknown"]

\* mutant: the filtered graph has only the nodes that its edges bring in
EdgeFilteredGraphEdgesOnly(g, edge_types) ==
    IF edge_types \in {NoFilter, {}} THEN g
    ELSE LET kept == SelectSeq(GraphEdges(g), LAMBDA e : g.etype[e] \in edge_types)
             ends == {e[1] : e \in Range(kept)} \cup {e[2] : e \in Range(kept)}
         IN [nodes |-> SelectSeq(g.nodes, LAMBDA n : n \in ends),
             attr |-> [n \in ends |-> g.attr[n]],
             edges |-> kept,
             etype |-> [e \in Range(kept) |-> g.etype[e]]]

\* mutant: the view keeps the edges of every type
EdgeFilteredGraphUnfiltered(g, edge_types) == g

\* the graph itself when no type is asked for; else a new DiGraph with every
\* node and, in G.edges order, the edges whose type is allowed
_edge_filtered_graph(g, edge_types) ==
    IF edge_types \in {NoFilter, {}} THEN g
    ELSE LET kept == SelectSeq(GraphEdges(g), LAMBDA e : g.etype[e] \in edge_types)
         IN [g EXCEPT !.edges = kept,
                      !.etype = [e \in Range(kept) |-> g.etype[e]]]

RECURSIVE Dedup(_)
\* the keys of a dict that was filled in the order of s
Dedup(s) ==
    IF s = <<>> THEN <<>>
    ELSE LET front == Dedup(Front(s))
         IN IF Last(s) \in Range(front) THEN front ELSE Append(front, Last(s))

\* mutant: an edge enters the adjacency of its source only
UndirectedAdjOneWay(g, n) == Successors(g, n)

\* G.to_undirected(): edges are added in G.edges order, each one entering the
\* adjacency of both of its endpoints; this is adj[n] of the result
UndirectedAdj(g, n) ==
    LET touching == SelectSeq(GraphEdges(g), LAMBDA e : e[1] = n \/ e[2] = n)
    IN Dedup([i \in 1..Len(touching) |->
                 IF touching[i][1] = n THEN touching[i][2] ELSE touching[i][1]])

\* Gsucc[v] and Gpred[v] of the graph handed to nx.shortest_path
Gsucc(g, directed, v) == IF directed THEN Successors(g, v) ELSE UndirectedAdj(g, v)
Gpred(g, directed, v) == IF directed THEN Predecessors(g, v) ELSE UndirectedAdj(g, v)

NoParent == <<>>

RECURSIVE ExpandLevel(_, _, _, _, _, _, _)
\* one level of the bidirectional search: for v in this_level, for w in the
\* neighbours of v; `mine` is the search tree being grown, `other` the tree of
\* the opposite side; returns at the first w that the other side has seen
ExpandLevel(nbrs, this_level, i, j, mine, other, fringe) ==
    IF i > Len(this_level) THEN [mine |-> mine, fringe |-> fringe, w |-> NoParent]
    ELSE IF j > Len(nbrs[this_level[i]])
         THEN ExpandLevel(nbrs, this_level, i + 1, 1, mine, other, fringe)
    ELSE LET v == this_level[i]
             w == nbrs[v][j]
             seen == w \in DOMAIN mine
             mine1 == IF seen THEN mine ELSE (w :> v) @@ mine
             fringe1 == IF seen THEN fringe ELSE Append(fringe, w)
         IN IF w \in DOMAIN other
            THEN [mine |-> mine1, fringe |-> fringe1, w |-> w]
            ELSE ExpandLevel(nbrs, this_level, i, j + 1, mine1, other, fringe1)

RECURSIVE BidirectionalPredSucc(_, _, _, _, _, _)
\* networkx _bidirectional_pred_succ; the shorter fringe is expanded, the
\* forward one on a tie
BidirectionalPredSucc(succs, preds, pred, succ, forward_fringe, reverse_fringe) ==
    IF forward_fringe = <<>> \/ reverse_fringe = <<>>
    THEN [found |-> FALSE, pred |-> pred, succ |-> succ, w |-> NoParent]
    ELSE IF Len(forward_fringe) <= Len(reverse_fringe)
    THEN LET r == ExpandLevel(succs, forward_fringe, 1, 1, pred, succ, <<>>)
         IN IF r.w # NoParent
            THEN [found |-> TRUE, pred |-> r.mine, succ |-> succ, w |-> r.w]
            ELSE BidirectionalPredSucc(succs, preds, r.mine, succ, r.fringe,
                                       reverse_fringe)
    ELSE LET r == ExpandLevel(preds, reverse_fringe, 1, 1, succ, pred, <<>>)
         IN IF r.w # NoParent
            THEN [found |-> TRUE, pred |-> pred, succ |-> r.mine, w |-> r.w]
            ELSE BidirectionalPredSucc(succs, preds, pred, r.mine, forward_fringe,
                                       r.fringe)

RECURSIVE ChainFrom(_, _)
\* w, parent[w], parent[parent[w]], ... up to the root of a search tree
ChainFrom(parent, w) ==
    IF w = NoParent THEN <<>> ELSE <<w>> \o ChainFrom(parent, parent[w])

Reverse(s) == [i \in 1..Len(s) |-> s[Len(s) + 1 - i]]

\* nx.shortest_path(G, source, target) without weights: the path, or the
\* exception it raises
shortest_path(g, directed, source, target) ==
    IF ~HasNode(g, source) \/ ~HasNode(g, target)
    THEN [raised |-> "NodeNotFound", path |-> <<>>]
    ELSE IF source = target THEN [raised |-> "none", path |-> <<source>>]
    ELSE LET succs == [v \in Range(g.nodes) |-> Gsucc(g, directed, v)]
             preds == [v \in Range(g.nodes) |-> Gpred(g, directed, v)]
             r == BidirectionalPredSucc(succs, preds, (source :> NoParent),
                                        (target :> NoParent), <<source>>, <<target>>)
         IN IF ~r.found THEN [raised |-> "NetworkXNoPath", path |-> <<>>]
            ELSE [raised |-> "none",
                  path |-> Reverse(ChainFrom(r.pred, r.w))
                           \o Tail(ChainFrom(r.succ, r.w))]

NotFoundAnswer ==
    [op |-> "graph_path", path |-> <<>>, edges |-> <<>>,
     error |-> "Source or target not found", raised |-> "none"]

\* graph_path from the point where both endpoints are resolved; `raised` names
\* an exception that leaves the method
PathAnswer(g, svc, source_id, target_id, edge_types, directed) ==
    LET view == _edge_filtered_graph(g, edge_types)
        r == shortest_path(view, directed, source_id, target_id)
    IN IF r.raised = "NetworkXNoPath"
       THEN [op |-> "graph_path", path |-> <<>>, edges |-> <<>>,
             error |-> "No path found", raised |-> "none"]
       ELSE IF r.raised # "none"
       THEN [op |-> "graph_path", path |-> <<>>, edges |-> <<>>,
             error |-> Absent, raised |-> r.raised]
       ELSE [op |-> "graph_path",
             path |-> [i \in 1..Len(r.path) |-> _node_view(svc, r.path[i])],
             edges |-> [i \in 1..(Len(r.path) - 1) |->
                           _edge_view(g, <<r.path[i], r.path[i + 1]>>)],
             error |-> Absent, raised |-> "none"]

\* mutant: the edge-type filter is ignored
EdgeAllowedAlways(g, source, target, edge_types) == TRUE

_edge_allowed(g, source, target, edge_types) ==
    IF edge_types = NoFilter THEN TRUE
    ELSE HasEdge(g, source, target) /\ g.etype[<<source, target>>] \in edge_types

\* mutant: the limit is not looked at
BfsVisitNoLimit(g, st, edge, neighbor, edge_types, limit) ==
    IF ~_edge_allowed(g, edge[1], edge[2], edge_types) THEN st
    ELSE IF neighbor \notin st.visited
    THEN [st EXCEPT !.edges = @ \cup {edge}, !.visited = @ \cup {neighbor},
                    !.next_frontier = @ \cup {neighbor}]
    ELSE [st EXCEPT !.edges = @ \cup {edge}]

\* the body of both neighbour loops of _bfs: the edge is recorded before the
\* limit is looked at
BfsVisit(g, st, edge, neighbor, edge_types, limit) ==
    IF ~_edge_allowed(g, edge[1], edge[2], edge_types) THEN st
    ELSE LET st1 == [st EXCEPT !.edges = @ \cup {edge}]
         IN IF neighbor \notin st.visited /\ Cardinality(st.visited) < limit
            THEN [st1 EXCEPT !.visited = @ \cup {neighbor},
                             !.next_frontier = @ \cup {neighbor}]
            ELSE st1

RECURSIVE BfsNeighbors(_, _, _, _, _, _, _, _)
BfsNeighbors(g, st, node_id, nbrs, j, outgoing, edge_types, limit) ==
    IF j > Len(nbrs) THEN st
    ELSE LET edge == IF outgoing THEN <<node_id, nbrs[j]>> ELSE <<nbrs[j], node_id>>
         IN BfsNeighbors(g, BfsVisit(g, st, edge, nbrs[j], edge_types, limit),
                         node_id, nbrs, j + 1, outgoing, edge_types, limit)

BfsNode(g, st, node_id, direction, edge_types, limit) ==
    LET st1 == IF direction \in {"outgoing", "both"}
               THEN BfsNeighbors(g, st, node_id, Successors(g, node_id), 1, TRUE,
                                 edge_types, limit)
               ELSE st
    IN IF direction \in {"incoming", "both"}
       THEN BfsNeighbors(g, st1, node_id, Predecessors(g, node_id), 1, FALSE,
                         edge_types, limit)
       ELSE st1

RECURSIVE BfsFrontier(_, _, _, _, _, _, _)
BfsFrontier(g, st, order, i, direction, edge_types, limit) ==
    IF i > Len(order) THEN st
    ELSE BfsFrontier(g, BfsNode(g, st, order[i], direction, edge_types, limit),
                     order, i + 1, direction, edge_types, limit)

\* the orders in which `for node_id in frontier` can go through a set
IterationOrders(S) == {order \in [1..Cardinality(S) -> S] : Range(order) = S}

\* one pass of `for _ in range(max(hops, 1))`, for each iteration order
BfsRound(g, st, direction, edge_types, limit) ==
    IF st.frontier = {} THEN {st}
    ELSE {LET done == BfsFrontier(g, [st EXCEPT !.next_frontier = {}], order, 1,
                                  direction, edge_types, limit)
          IN [done EXCEPT !.frontier = done.next_frontier] :
             order \in IterationOrders(st.frontier)}

RECURSIVE BfsRounds(_, _, _, _, _, _)
BfsRounds(g, sts, rounds, direction, edge_types, limit) ==
    IF rounds = 0 THEN sts
    ELSE BfsRounds(g, UNION {BfsRound(g, st, direction, edge_types, limit) : st \in sts},
                   rounds - 1, direction, edge_types, limit)

\* mutant: a single round whatever the hop count
AlwaysOne(a, b) == 1

\* mutant: one round more than asked for
MaxPlusOne(a, b) == IF a >= b THEN a + 1 ELSE b + 1

Max(a, b) == IF a >= b THEN a ELSE b

\* the (nodes, edges) pairs _bfs can return, both as sets
_bfs(g, seed_ids, direction, hops, edge_types, limit) ==
    IF seed_ids = {} THEN {[nodes |-> {}, edges |-> {}]}
    ELSE LET start == [visited |-> seed_ids, frontier |-> seed_ids,
                       next_frontier |-> {}, edges |-> {}]
         IN {[nodes |-> st.visited, edges |-> st.edges] :
                st \in BfsRounds(g, {start}, Max(hops, 1), direction, edge_types,
                                 limit)}

\* set(edge_types) if edge_types else None
FilterArg(edge_types) == IF edge_types \in {NoFilter, {}} THEN NoFilter ELSE edge_types

\* the result dict of get_dependencies, subgraph and impact_analysis
BfsAnswer(op, g, svc, found) ==
    [op |-> op,
     nodes |-> {_node_view(svc, n) : n \in found.nodes},
     edges |-> {_edge_view(g, e) : e \in found.edges}]

(***************************************************************************)
(* Served graphs.  Four function nodes with short ids: f and F of file p   *)
(* (their ids differ in case only), the method g.f of file p, and an       *)
(* external h.  A graph has all four nodes and some of the candidate       *)
(* edges, added in the order of CandidateEdges.                            *)
(***************************************************************************)
\* mutant: the lookup creates a missing bucket, as dict.setdefault would
IndexAfterLookupSetdefault(exact_index, q) ==
    [k \in DOMAIN exact_index |->
        IF q \in DOMAIN exact_index[k] THEN exact_index[k]
        ELSE (q :> <<>>) @@ exact_index[k]]

\* the exact-match indexes after _resolve_seed_nodes has looked q up: the
\* tests `q in bucket` and bucket.get(q) leave every bucket as it is
IndexAfterLookup(exact_index, q) == exact_index

\* the service object after _resolve_seed_nodes(query_text, limit)
ServiceAfterResolve(svc, query_text) ==
    [svc EXCEPT !.exact_index = IndexAfterLookup(@, Lower(query_text))]

RECURSIVE WithReverseEdges(_, _, _)
\* every edge of `edges` also entered in the other direction
WithReverseEdges(g, edges, i) ==
    IF i > Len(edges) THEN g
    ELSE LET e == edges[i]
         IN WithReverseEdges(IF HasEdge(g, e[2], e[1]) THEN g
                             ELSE AddEdge(g, e[2], e[1], g.etype[e]),
                             edges, i + 1)

\* the objects a handler holds: self.graph, the new DiGraph that
\* _edge_filtered_graph builds for a filter, and the copy to_undirected makes;
\* without a filter the view is self.graph itself
ViewRef(edge_types) == IF edge_types \in {NoFilter, {}} THEN "self" ELSE "view"

ViewHeap(g, edge_types) ==
    [self |-> g, view |-> _edge_filtered_graph(g, edge_types), undirected |-> EmptyGraph]

\* mutant: the view is made undirected in place
ToUndirectedInPlace(heap, ref) ==
    [heap EXCEPT ![ref] = WithReverseEdges(@, GraphEdges(@), 1)]

\* graph.to_undirected(): a new graph object; the graph it is called on is
\* left as it is
to_undirected(heap, ref) ==
    [heap EXCEPT !.undirected = WithReverseEdges(heap[ref], GraphEdges(heap[ref]), 1)]

\* self.graph after a handler has taken the filtered view and, when asked,
\* its undirected copy
SelfGraphAfterView(g, edge_types, undirected) ==
    LET heap == ViewHeap(g, edge_types)
    IN (IF undirected THEN to_undirected(heap, ViewRef(edge_types)) ELSE heap).self

MaxEdges == 4
MaxHops == 2
DefaultLimit == 200

IdF == <<"p", ":", "f">>
IdCapF == <<"p", ":", "F">>
IdGF == <<"p", ":", "g", ".", "f">>
IdH == <<"x", ":", "h">>

ServedNodes ==
    << <<IdF, NodeAttrs(NODE_FUNCTION, <<"f">>, <<"f">>, <<"p">>, Absent)>>,
       <<IdCapF, NodeAttrs(NODE_FUNCTION, <<"F">>, <<"F">>, <<"p">>, Absent)>>,
       <<IdGF, NodeAttrs(NODE_FUNCTION, <<"f">>, <<"g", ".", "f">>, <<"p">>, Absent)>>,
       <<IdH, NodeAttrs(NODE_FUNCTION, <<"h">>, <<"h">>, PyNone, "True")>> >>

CandidateEdges ==
    << <<IdF, IdH, EDGE_CALLS>>,
       <<IdCapF, IdGF, EDGE_CALLS>>,
       <<IdCapF, IdH, EDGE_CALLS>>,
       <<IdGF, IdF, EDGE_CALLS>>,
       <<IdH, IdF, EDGE_INHERITS>>,
       <<IdF, IdCapF, EDGE_INHERITS>>,
       <<IdGF, IdH, EDGE_CALLS>>,
       <<IdCapF, IdF, EDGE_CALLS>>,
       <<IdF, IdCapF, EDGE_CALLS>> >>

RECURSIVE WithNodes(_, _)
WithNodes(g, i) ==
    IF i > Len(ServedNodes) THEN g
    ELSE WithNodes(AddNode(g, ServedNodes[i][1], ServedNodes[i][2]), i + 1)

RECURSIVE WithEdges(_, _, _)
WithEdges(g, chosen, i) ==
    IF i > Len(CandidateEdges) THEN g
    ELSE LET e == CandidateEdges[i]
         IN WithEdges(IF i \in chosen THEN AddEdge(g, e[1], e[2], e[3]) ELSE g,
                      chosen, i + 1)

ServedGraphs ==
    {WithEdges(WithNodes(EmptyGraph, 1), chosen, 1) :
        chosen \in {c \in SUBSET (1..Len(CandidateEdges)) : Cardinality(c) <= MaxEdges}}

EdgeFilters == {NoFilter, {}, {EDGE_CALLS}, {EDGE_INHERITS}}
PathTexts == {IdF, IdGF, IdH, <<"f">>, <<"z">>}
SeedTexts == {IdF, IdGF, IdH, <<"p">>, <<"z">>}
Directions == {"outgoing", "incoming", "both"}
Limits == {2, DefaultLimit}

\* GraphService(graph): the constructor has built the indexes
InitService ==
    /\ pc = "serving"
    /\ tree = NoNode
    /\ work = <<>>
    /\ scope = <<>>
    /\ results = EmptyResults(NoneVal)
    /\ extracted = <<>>
    /\ cursor = 0
    /\ index = EmptyIndex
    /\ doc = NoDoc
    /\ loaded = EmptyGraph
    /\ graph \in ServedGraphs
    /\ service = _build_indexes(graph)
    /\ query = NoQuery
    /\ answer = NoAnswer
    /\ chat = NoChat

GraphPath ==
    /\ pc = "serving"
    /\ \E source \in PathTexts, target \in PathTexts, edge_types \in EdgeFilters,
          directed \in BOOLEAN :
          LET source_ids == _resolve_seed_nodes(service, source, 1)
              target_ids == _resolve_seed_nodes(service, target, 1)
              args == [op |-> "graph_path", source |-> source, target |-> target,
                       edge_types |-> edge_types, directed |-> directed]
          IN /\ service' = ServiceAfterResolve(ServiceAfterResolve(service, source),
                                               target)
             /\ IF source_ids = {} \/ target_ids = {} THEN
                    /\ query' = args @@ [source_id |-> NoParent,
                                         target_id |-> NoParent]
                    /\ answer' = NotFoundAnswer
                    /\ graph' = graph
                ELSE \* next(iter(ids)) takes some element of the set
                    \E source_id \in source_ids, target_id \in target_ids :
                       /\ query' = args @@ [source_id |-> source_id,
                                            target_id |-> target_id]
                       /\ answer' = PathAnswer(graph, service, source_id, target_id,
                                               edge_types, directed)
                       /\ graph' = SelfGraphAfterView(graph, edge_types, ~directed)
    /\ pc' = "answered"
    /\ UNCHANGED <<tree, work, scope, results, extracted, index, cursor, doc, loaded,
                   chat>>

\* mutant: impact_analysis follows the edges forwards
ExpandImpactForwards(op, text, direction, hops, edge_types, limit) ==
    LET seed_ids == _resolve_seed_nodes(service, text, 5)
        followed == IF op = "impact_analysis" THEN "outgoing" ELSE direction
    IN /\ query' = [op |-> op, query |-> text, seed_ids |-> seed_ids,
                    direction |-> direction, hops |-> hops,
                    edge_types |-> edge_types, limit |-> limit]
       /\ service' = ServiceAfterResolve(service, text)
       /\ \E found \in _bfs(graph, seed_ids, followed, hops, FilterArg(edge_types),
                            limit) :
             answer' = BfsAnswer(op, graph, service, found)

\* the common body of get_dependencies, subgraph and impact_analysis
Expand(op, text, direction, hops, edge_types, limit) ==
    LET seed_ids == _resolve_seed_nodes(service, text, 5)
    IN /\ query' = [op |-> op, query |-> text, seed_ids |-> seed_ids,
                    direction |-> direction, hops |-> hops,
                    edge_types |-> edge_types, limit |-> limit]
       /\ service' = ServiceAfterResolve(service, text)
       /\ \E found \in _bfs(graph, seed_ids, direction, hops, FilterArg(edge_types),
                            limit) :
             answer' = BfsAnswer(op, graph, service, found)

GetDependencies ==
    /\ pc = "serving"
    /\ \E text \in SeedTexts, direction \in Directions, hops \in 0..MaxHops,
          edge_types \in EdgeFilters, limit \in Limits :
          Expand("get_dependencies", text, direction, hops, edge_types, limit)
    /\ pc' = "answered"
    /\ UNCHANGED <<tree, work, scope, results, extracted, graph, index, cursor, doc,
                   loaded, chat>>

Subgraph ==
    /\ pc = "serving"
    /\ \E text \in SeedTexts, direction \in Directions, hops \in 0..MaxHops,
          edge_types \in EdgeFilters, limit \in Limits :
          Expand("subgraph", text, direction, hops, edge_types, limit)
    /\ pc' = "answered"
    /\ UNCHANGED <<tree, work, scope, results, extracted, graph, index, cursor, doc,
                   loaded, chat>>

ImpactAnalysis ==
    /\ pc = "serving"
    /\ \E text \in SeedTexts, hops \in 0..MaxHops, edge_types \in EdgeFilters,
          limit \in Limits :
          Expand("impact_analysis", text, "incoming", hops, edge_types, limit)
    /\ pc' = "answered"
    /\ UNCHANGED <<tree, work, scope, results, extracted, graph, index, cursor, doc,
                   loaded, chat>>

\* the result is handed to the caller; the service waits for the next query
Reply ==
    /\ pc = "answered"
    /\ pc' = "serving"
    /\ query' = NoQuery
    /\ answer' = NoAnswer
    /\ UNCHANGED <<tree, work, scope, results, extracted, graph, index, cursor, doc,
                   loaded, service, chat>>

NextPath == GraphPath \/ Reply

NextExpand == GetDependencies \/ Subgraph \/ ImpactAnalysis \/ Reply

SpecPath == InitService /\ [][NextPath]_vars

SpecExpand == InitService /\ [][NextExpand]_vars


(***************************************************************************)
(* Distance in a served graph, read off the edge set: a step from m to n   *)
(* follows an edge of an allowed type in the asked direction.              *)
(***************************************************************************)
TypePasses(g, e, edge_types) == edge_types \in {NoFilter, {}} \/ g.etype[e] \in edge_types

StepAllowed(g, m, n, direction, edge_types) ==
    \/ /\ direction \in {"outgoing", "both"}
       /\ HasEdge(g, m, n) /\ TypePasses(g, <<m, n>>, edge_types)
    \/ /\ direction \in {"incoming", "both"}
       /\ HasEdge(g, n, m) /\ TypePasses(g, <<n, m>>, edge_types)

RECURSIVE WithinDistance(_, _, _, _, _)
WithinDistance(g, S, k, direction, edge_types) ==
    IF k = 0 THEN S
    ELSE LET near == WithinDistance(g, S, k - 1, direction, edge_types)
         IN near \cup {n \in Range(g.nodes) :
                          \E m \in near : StepAllowed(g, m, n, direction, edge_types)}

ExpandOps == {"get_dependencies", "subgraph", "impact_analysis"}
Expanded == pc = "answered" /\ answer.op \in ExpandOps
ReturnedIds == {n.id : n \in answer.nodes}

\* C4 as stated: for every hop count h >= 0 every node returned by
\* get_dependencies, subgraph or impact_analysis is within distance h of a
\* resolved seed, along edges of an allowed type in the asked direction.
C4_Original ==
    Expanded =>
        ReturnedIds \subseteq WithinDistance(graph, query.seed_ids, query.hops,
                                             query.direction, query.edge_types)

\* C4 amended: every node returned is within distance max(h, 1) of a resolved
\* seed, along edges of an allowed type in the asked direction; a hop count
\* of 0 is served as 1.
C4_WithinMaxHopsOne ==
    Expanded =>
        ReturnedIds \subseteq
            WithinDistance(graph, query.seed_ids,
                           IF query.hops >= 1 THEN query.hops ELSE 1,
                           query.direction, query.edge_types)

\* a two-hop expansion under a type filter returned a node at distance two
C4_Witness ==
    /\ Expanded
    /\ query.hops = 2
    /\ query.edge_types = {EDGE_CALLS}
    /\ ReturnedIds \ WithinDistance(graph, query.seed_ids, 1, query.direction,
                                    query.edge_types) # {}

PathAnswered == pc = "answered" /\ answer.op = "graph_path"
EndpointsResolved == query.source_id # NoParent /\ query.target_id # NoParent
PathIds(a) == [i \in 1..Len(a.path) |-> a.path[i].id]

\* the answer to the same query with source and target exchanged
BackAnswer ==
    PathAnswer(graph, service, query.target_id, query.source_id, query.edge_types,
               query.directed)

\* the distance between a and b in the undirected filtered view, -1 if none
UndirectedDistance(g, a, b, edge_types) ==
    LET ks == {k \in 0..Len(g.nodes) :
                  b \in WithinDistance(g, {a}, k, "both", edge_types)}
    IN IF ks = {} THEN -1 ELSE CHOOSE k \in ks : \A j \in ks : k <= j

\* the shortest paths between a and b in the undirected filtered view
ShortestPaths(g, a, b, edge_types) ==
    LET d == UndirectedDistance(g, a, b, edge_types)
    IN IF d = -1 THEN {}
       ELSE {p \in [1..(d + 1) -> Range(g.nodes)] :
                /\ p[1] = a /\ p[d + 1] = b
                /\ \A i \in 1..d : StepAllowed(g, p[i], p[i + 1], "both", edge_types)}

\* C5 as stated: with directed=false and the same filter, the node sequence of
\* graph_path(A, B) reversed is the node sequence of graph_path(B, A), also
\* when several shortest paths exist.
C5_Original ==
    (PathAnswered /\ ~query.directed /\ EndpointsResolved) =>
        Reverse(PathIds(answer)) = PathIds(BackAnswer)

\* C5 amended: with directed=false and the same filter, graph_path(A, B) and
\* graph_path(B, A) fail together with the same error or succeed together
\* with paths of the same length, and the one is the reverse of the other
\* when the shortest path between A and B is unique.
C5_SymmetricUpToTies ==
    (PathAnswered /\ ~query.directed /\ EndpointsResolved) =>
        /\ answer.error = BackAnswer.error
        /\ Len(answer.path) = Len(BackAnswer.path)
        /\ Cardinality(ShortestPaths(graph, query.source_id, query.target_id,
                                     query.edge_types)) <= 1
              => Reverse(PathIds(answer)) = PathIds(BackAnswer)

\* an undirected query answered with the only shortest path, three edges long
C5_Witness ==
    /\ PathAnswered /\ ~query.directed /\ EndpointsResolved
    /\ Len(answer.path) = 4
    /\ Cardinality(ShortestPaths(graph, query.source_id, query.target_id,
                                 query.edge_types)) = 1
    /\ Reverse(PathIds(answer)) = PathIds(BackAnswer)

\* the nodes that a path of the filtered, optionally undirected, view can
\* reach from the resolved source
Reachable ==
    WithinDistance(graph, {query.source_id}, Len(graph.nodes),
                   IF query.directed THEN "outgoing" ELSE "both", query.edge_types)

\* C8: graph_path never raises; with an unresolved endpoint it returns empty
\* path and edges and the error "Source or target not found"; with both
\* resolved and no path in the filtered (optionally undirected) view, empty
\* path and edges and the error "No path found"; otherwise a non-empty path
\* and no error field.
C8_PathErrors ==
    PathAnswered =>
        /\ answer.raised = "none"
        /\ IF \/ _resolve_seed_nodes(service, query.source, 1) = {}
              \/ _resolve_seed_nodes(service, query.target, 1) = {}
           THEN /\ answer.path = <<>> /\ answer.edges = <<>>
                /\ answer.error = "Source or target not found"
           ELSE IF query.target_id \notin Reachable
           THEN /\ answer.path = <<>> /\ answer.edges = <<>>
                /\ answer.error = "No path found"
           ELSE /\ answer.path # <<>>
                /\ answer.error = Absent

\* both endpoints resolve, the source has edges, yet none of the asked type:
\* the answer is "No path found"
C8_Witness ==
    /\ PathAnswered /\ EndpointsResolved
    /\ query.edge_types = {EDGE_INHERITS}
    /\ query.source_id # query.target_id
    /\ Successors(graph, query.source_id) # <<>>
    /\ \A e \in DOMAIN graph.etype : graph.etype[e] = EDGE_CALLS
    /\ answer.error = "No path found"


(***************************************************************************)
(* The built graph, continued.                                             *)
(***************************************************************************)
\* C11: every edge endpoint is a node that was made by _ensure_node, so no
\* graph state has a node that an edge insertion created without type and
\* name attributes.
C11_NoImplicitNodes ==
    /\ \A e \in Range(graph.edges) : HasNode(graph, e[1]) /\ HasNode(graph, e[2])
    /\ \A n \in Range(graph.nodes) :
          /\ graph.attr[n] # NoAttrs
          /\ graph.attr[n].type \in {NODE_FILE, NODE_FUNCTION, NODE_CLASS}
          /\ graph.attr[n].name # <<>>

\* a finished build with a call edge and an inheritance edge that each end in
\* an external placeholder
C11_Witness ==
    /\ pc = "built"
    /\ \A t \in {EDGE_CALLS, EDGE_INHERITS} :
          \E e \in Range(graph.edges) :
              /\ graph.etype[e] = t
              /\ graph.attr[e[2]].external = "True"

\* the function registrations of pass 1, as (entry, position) pairs
Registrations ==
    UNION {{<<i, j>> : j \in 1..Len(extracted[i].functions)} :
              i \in {k \in 1..Len(extracted) : ~Falsy(extracted[k].path)}}

RegisteredSymbol(r) == extracted[r[1]].functions[r[2]]

KeyMatches(r, name) ==
    IF Len(name) = 1 THEN RegisteredSymbol(r).name = name[1]
    ELSE RegisteredSymbol(r).qualname = name

\* the registrations that offer a function for the key (path, name): those
\* of the file itself if there are any, else those of every file
Candidates(path, name) ==
    LET all == {r \in Registrations : KeyMatches(r, name)}
        own == {r \in all : extracted[r[1]].path = path}
    IN IF own # {} THEN own ELSE all

Earlier(r, q) == r[1] < q[1] \/ (r[1] = q[1] /\ r[2] <= q[2])

FirstRegistered(rs) == CHOOSE r \in rs : \A q \in rs : Earlier(r, q)

RegisteredId(r) == function_node_id(extracted[r[1]].path, RegisteredSymbol(r).qualname)

\* C12: among the registered functions that are candidates for a lookup key
\* the first-registered wins; resolve_function(file, "bar") on a file that
\* defines bar and then X.bar returns the node of bar.
C12_FirstRegisteredWins ==
    (pc = "resolved" /\ query.name # <<>> /\ Candidates(query.path, query.name) # {}) =>
        answer.id = RegisteredId(FirstRegistered(Candidates(query.path, query.name)))

\* what holds of the code: a key with candidates resolves to one of them
ResolvesToACandidate ==
    (pc = "resolved" /\ query.name # <<>> /\ Candidates(query.path, query.name) # {}) =>
        answer.id \in {RegisteredId(r) : r \in Candidates(query.path, query.name)}


(***************************************************************************)
(* Searched graphs.  search and seed resolution read the nodes only, in    *)
(* node order: a graph here is a sequence of distinct nodes out of the     *)
(* four served ones and the File node of p, whose qualified name is null.  *)
(***************************************************************************)
MaxNodes == 3
DefaultSearchLimit == 20
PathEndpointCount == 1
ExpansionSeedCount == 5

IdFileP == <<"p", ":">>

SearchedNodes ==
    ServedNodes \o
    << <<IdFileP, NodeAttrs(NODE_FILE, <<"p">>, PyNone, <<"p">>, Absent)>> >>

RECURSIVE WithSearchedNodes(_, _, _)
WithSearchedNodes(g, picks, i) ==
    IF i > Len(picks) THEN g
    ELSE WithSearchedNodes(
             AddNode(g, SearchedNodes[picks[i]][1], SearchedNodes[picks[i]][2]),
             picks, i + 1)

SearchedGraphs ==
    {WithSearchedNodes(EmptyGraph, picks, 1) :
        picks \in {q \in SeqsUpTo(1..Len(SearchedNodes), MaxNodes) :
                      \A i, j \in 1..Len(q) : q[i] = q[j] => i = j}}

SearchTexts ==
    {<<>>, <<"f">>, <<"F">>, <<"p">>, <<"h">>, <<"g", ".">>, <<"n", "o", "n", "e">>,
     <<"z">>, IdF, <<"P", ":", "F">>}
NodeTypeFilters == {NoFilter, {}, {NODE_FUNCTION}, {NODE_FILE}}
SearchLimits == {0, 1, 2, DefaultSearchLimit}
SeedCounts == {PathEndpointCount, ExpansionSeedCount}

\* GraphService(graph) on a searched graph
InitSearch ==
    /\ pc = "serving"
    /\ tree = NoNode
    /\ work = <<>>
    /\ scope = <<>>
    /\ results = EmptyResults(NoneVal)
    /\ extracted = <<>>
    /\ cursor = 0
    /\ index = EmptyIndex
    /\ doc = NoDoc
    /\ loaded = EmptyGraph
    /\ graph \in SearchedGraphs
    /\ service = _build_indexes(graph)
    /\ query = NoQuery
    /\ answer = NoAnswer
    /\ chat = NoChat

Search ==
    /\ pc = "serving"
    /\ \E text \in SearchTexts, node_types \in NodeTypeFilters, limit \in SearchLimits :
          /\ query' = [op |-> "search", query |-> text, node_types |-> node_types,
                       limit |-> limit]
          /\ answer' = [op |-> "search",
                        matches |-> _search_nodes(service, text, node_types, limit)]
    /\ pc' = "answered"
    /\ UNCHANGED <<tree, work, scope, results, extracted, graph, index, cursor, doc,
                   loaded, service, chat>>

\* _resolve_seed_nodes as graph_path (limit 1) and the expansions (limit 5)
\* call it
ResolveSeeds ==
    /\ pc = "serving"
    /\ \E text \in SearchTexts, limit \in SeedCounts :
          /\ query' = [op |-> "resolve_seed_nodes", query |-> text, limit |-> limit]
          /\ answer' = [op |-> "resolve_seed_nodes",
                        ids |-> _resolve_seed_nodes(service, text, limit)]
          /\ service' = ServiceAfterResolve(service, text)
    /\ pc' = "answered"
    /\ UNCHANGED <<tree, work, scope, results, extracted, graph, index, cursor, doc,
                   loaded, chat>>

NextSearch == Search \/ ResolveSeeds \/ Reply

SpecSearch == InitSearch /\ [][NextSearch]_vars

Searched == pc = "answered" /\ answer.op = "search"

TypeFilterPasses(node, node_types) ==
    node_types \in {NoFilter, {}} \/ node.type \in node_types

\* the fields of a node that hold a str
ActualFields(node) == {node.id, node.name, node.qualname, node.path} \ {PyNone}

\* C13: search returns a node only if it passes the node-type filter and the
\* text is a case-insensitive substring of its actual id, name, qualified
\* name or path; a null field never causes a match.
C13_MatchesAreSubstringHits ==
    Searched =>
        \A m \in Range(answer.matches) :
            /\ TypeFilterPasses(m, query.node_types)
            /\ \E field \in ActualFields(m) :
                  Contains(Lower(query.query), Lower(field))

\* what holds of the code: a match passes the type filter and has the text
\* inside a field or inside "None", the str() of a null field
MatchesAreHitsOrNoneHits ==
    Searched =>
        \A m \in Range(answer.matches) :
            /\ TypeFilterPasses(m, query.node_types)
            /\ \E field \in {m.id, m.name, m.qualname, m.path} :
                  Contains(Lower(query.query), Lower(Str(field)))

\* every node that search holds to match, in node-iteration order
AllMatching ==
    SelectSeq(service.nodes,
              LAMBDA n : NodeMatches(n, Lower(query.query), query.node_types))

\* C14: for every limit >= 0 search returns at most `limit` matches, and they
\* are the first min(limit, number of matching nodes) matching nodes in
\* node-iteration order.
C14_FirstLimitMatches ==
    Searched =>
        /\ Len(answer.matches) <= query.limit
        /\ answer.matches = Take(AllMatching, query.limit)

\* what holds of the code: the claim for every limit >= 1, and one match at
\* most for limit 0
FirstMatchesForPositiveLimit ==
    Searched =>
        answer.matches = Take(AllMatching, IF query.limit >= 1 THEN query.limit ELSE 1)

SeedsResolved == pc = "answered" /\ answer.op = "resolve_seed_nodes"

\* the ids, in node order, of the nodes whose field equals the text up to case
ExactHits(field) ==
    LET hits == SelectSeq(service.nodes,
                    LAMBDA n : /\ n[field] \notin {PyNone, <<>>}
                               /\ Lower(n[field]) = Lower(query.query))
    IN [i \in 1..Len(hits) |-> hits[i].id]

\* the ids, in node order, of the nodes that the substring search matches
SubstringHits ==
    LET hits == SelectSeq(service.nodes,
                    LAMBDA n : \E field \in {n.id, n.name, n.qualname, n.path} :
                                  Contains(Lower(query.query), Lower(Str(field))))
    IN [i \in 1..Len(hits) |-> hits[i].id]

\* the first non-empty source in the order id, qualified name, name, path,
\* substring search
FirstSource ==
    IF ExactHits("id") # <<>> THEN ExactHits("id")
    ELSE IF ExactHits("qualname") # <<>> THEN ExactHits("qualname")
    ELSE IF ExactHits("name") # <<>> THEN ExactHits("name")
    ELSE IF ExactHits("path") # <<>> THEN ExactHits("path")
    ELSE SubstringHits

FirstK(hits, k) == {hits[i] : i \in {j \in 1..Len(hits) : j <= k}}

\* C15 as stated: seed resolution returns the ids of the first non-empty
\* source in the order exact id, qualified-name bucket, name bucket, path
\* bucket, substring search, and in every case at most the requested count.
C15_Original ==
    SeedsResolved =>
        /\ answer.ids = FirstK(FirstSource, query.limit)
        /\ Cardinality(answer.ids) <= query.limit

\* C15 amended: the ids come from the first non-empty source in that order;
\* a bucket or the substring search gives its first `count` ids in node
\* order, while an exact id match gives every node whose id equals the text
\* up to case, which can be more than the requested count.
C15_FirstSourceIdUncut ==
    SeedsResolved =>
        /\ answer.ids = IF ExactHits("id") # <<>> THEN Range(ExactHits("id"))
                        ELSE FirstK(FirstSource, query.limit)
        /\ ExactHits("id") = <<>> => Cardinality(answer.ids) <= query.limit

\* one seed was asked for and taken from a path bucket of several nodes, no
\* id, qualified name or name being equal to the text
C15_Witness ==
    /\ SeedsResolved
    /\ query.limit = PathEndpointCount
    /\ ExactHits("id") = <<>> /\ ExactHits("qualname") = <<>> /\ ExactHits("name") = <<>>
    /\ Len(ExactHits("path")) >= 2
    /\ answer.ids = {ExactHits("path")[1]}


(***************************************************************************)
(* Expansions, continued.                                                  *)
(***************************************************************************)
\* C16 as stated: for every seed set and every limit >= 1 an expansion
\* returns at most `limit` nodes.
C16_Original ==
    Expanded => Cardinality(ReturnedIds) <= query.limit

\* C16 amended: the resolved seeds are always returned, and the visited set
\* grows only while it holds fewer than `limit` nodes; so an expansion
\* returns at most max(limit, number of resolved seeds) nodes, and nothing
\* but the seeds once they alone reach the limit.  The result has no error
\* field.
C16_StopsGrowingAtLimit ==
    Expanded =>
        /\ query.seed_ids \subseteq ReturnedIds
        /\ Cardinality(ReturnedIds) <=
               (IF Cardinality(query.seed_ids) >= query.limit
                THEN Cardinality(query.seed_ids) ELSE query.limit)
        /\ Cardinality(query.seed_ids) >= query.limit => ReturnedIds = query.seed_ids
        /\ DOMAIN answer = {"op", "nodes", "edges"}

\* a one-hop expansion from one seed with two allowed neighbours stopped in
\* the middle of the hop, at two nodes
C16_Witness ==
    /\ Expanded
    /\ query.limit = 2 /\ query.hops = 1
    /\ Cardinality(query.seed_ids) = 1
    /\ Cardinality(WithinDistance(graph, query.seed_ids, 1, query.direction,
                                  query.edge_types)) >= 3
    /\ Cardinality(ReturnedIds) = 2

\* the results get_dependencies(text, direction, hops, edge_types, limit) can
\* give on the served graph, one for each iteration order of the frontier
GetDependenciesResults(text, direction, hops, edge_types, limit) ==
    {BfsAnswer("get_dependencies", graph, service, found) :
        found \in _bfs(graph, _resolve_seed_nodes(service, text, ExpansionSeedCount),
                       direction, hops, FilterArg(edge_types), limit)}

NoError == [text |-> "None", status |-> 0, call |-> 0]
NoContent == "<no content>"
NoPlan == "<no plan>"

Contents == {"{plan}", "prose {plan} prose", "null", "garbage", NoContent}
Statuses == {400, 401, 429, 500}

ChatOutcomes ==
    {[kind |-> "ok", content |-> c, status |-> 200] : c \in Contents}
    \cup {[kind |-> "http_error", content |-> NoContent, status |-> st] : st \in Statuses}
    \cup {[kind |-> "exception", content |-> NoContent, status |-> 0]}

\* _format_openrouter_error(exc) for the failure of the n-th request
_format_openrouter_error(status, n) ==
    [text |-> "OpenRouter error", status |-> status, call |-> n]

\* str(exc) of an exception that is no OpenRouterRequestError
ExceptionText(n) == [text |-> "exception", status |-> 0, call |-> n]

ParseError == [text |-> "Failed to parse JSON", status |-> 0, call |-> 0]
NoContentError == [text |-> "No content returned from model", status |-> 0, call |-> 0]

\* _parse_plan_json(content): json.loads, then json.loads of the text between
\* the first "{" and the last "}"
_parse_plan_json(content) ==
    CASE content = "{plan}" -> [plan_data |-> "plan", parse_error |-> NoError]
      [] content = "prose {plan} prose" -> [plan_data |-> "plan", parse_error |-> NoError]
      [] content = "null" -> [plan_data |-> NoPlan, parse_error |-> NoError]
      [] OTHER -> [plan_data |-> NoPlan, parse_error |-> ParseError]

\* a chat_completions call with its response_format, and the HTTP status it
\* met (0 when the request raised something else)
ChatCall(purpose, response_format, status) ==
    [purpose |-> purpose, response_format |-> response_format, status |-> status]

\* mutant: a retry that succeeds leaves the message of the first failure
RetryErrorKept(o, first_error) ==
    IF o.kind = "ok" THEN first_error ELSE _format_openrouter_error(o.status, 2)

\* error_message after the retry
RetryError(o, first_error) ==
    IF o.kind = "ok" THEN NoError ELSE _format_openrouter_error(o.status, 2)

\* MigrationPlanResult
PlanResult(plan, error, raw_text) ==
    [op |-> "generate_migration_plan", model |-> query.model, plan |-> plan,
     error |-> error, raw_text |-> raw_text,
     graph_context |-> IF query.include_graph_context THEN "context" ELSE NoneVal]

\* generate_migration_plan(service, request, config) is entered
InitPlan ==
    /\ pc = "plan_first"
    /\ tree = NoNode
    /\ work = <<>>
    /\ scope = <<>>
    /\ results = EmptyResults(NoneVal)
    /\ extracted = <<>>
    /\ cursor = 0
    /\ index = EmptyIndex
    /\ doc = NoDoc
    /\ loaded = EmptyGraph
    /\ graph = EmptyGraph
    /\ service = NoService
    /\ \E m \in {"model-a", "model-b"}, ctx \in BOOLEAN :
          query = [op |-> "generate_migration_plan", model |-> m,
                   include_graph_context |-> ctx]
    /\ answer = NoAnswer
    /\ chat = [calls |-> <<>>, response |-> NoContent, error_message |-> NoError,
               repaired |-> NoContent]

\* the first chat request, in JSON mode
FirstChat ==
    /\ pc = "plan_first"
    /\ \E o \in ChatOutcomes :
          LET calls == Append(chat.calls, ChatCall("plan", "json_object", o.status))
          IN IF o.kind = "ok" THEN
                 /\ chat' = [chat EXCEPT !.calls = calls, !.response = o.content,
                                         !.error_message = NoError]
                 /\ pc' = "plan_parse"
             ELSE IF o.kind = "http_error" THEN
                 /\ chat' = [chat EXCEPT
                               !.calls = calls,
                               !.error_message = _format_openrouter_error(o.status, 1)]
                 /\ pc' = IF o.status = 400 THEN "plan_retry" ELSE "plan_parse"
             ELSE
                 /\ chat' = [chat EXCEPT !.calls = calls,
                                         !.error_message = ExceptionText(1)]
                 /\ pc' = "plan_parse"
    /\ UNCHANGED <<tree, work, scope, results, extracted, graph, index, cursor, doc,
                   loaded, service, query, answer>>

\* the retry without JSON mode, inside the handler of the first failure: an
\* exception that is no OpenRouterRequestError leaves the function
RetryChat ==
    /\ pc = "plan_retry"
    /\ \E o \in ChatOutcomes :
          LET calls == Append(chat.calls, ChatCall("plan", NoneVal, o.status))
          IN IF o.kind = "exception" THEN
                 /\ chat' = [chat EXCEPT !.calls = calls]
                 /\ pc' = "raised"
             ELSE
                 /\ chat' = [chat EXCEPT
                               !.calls = calls, !.response = o.content,
                               !.error_message = RetryError(o, chat.error_message)]
                 /\ pc' = "plan_parse"
    /\ UNCHANGED <<tree, work, scope, results, extracted, graph, index, cursor, doc,
                   loaded, service, query, answer>>

\* from content = _extract_content(response) to the return, unless the content
\* does not parse and _repair_json is called
ParsePlan ==
    /\ pc = "plan_parse"
    /\ LET content == chat.response
           parsed == _parse_plan_json(content)
       IN IF content = NoContent THEN
              /\ answer' = PlanResult(NoPlan,
                              IF chat.error_message = NoError THEN NoContentError
                              ELSE chat.error_message, NoContent)
              /\ pc' = "answered"
          ELSE IF parsed.plan_data = NoPlan /\ parsed.parse_error # NoError THEN
              /\ answer' = answer
              /\ pc' = "plan_repair"
          ELSE
              /\ answer' = PlanResult(parsed.plan_data, chat.error_message, content)
              /\ pc' = "answered"
    /\ UNCHANGED <<tree, work, scope, results, extracted, graph, index, cursor, doc,
                   loaded, service, query, chat>>

\* _repair_json and the rest of generate_migration_plan
RepairChat ==
    /\ pc = "plan_repair"
    /\ \E o \in ChatOutcomes :
          LET calls == Append(chat.calls, ChatCall("repair", NoneVal, o.status))
              repaired == IF o.kind = "ok" THEN o.content ELSE NoContent
              parsed == IF repaired # NoContent THEN _parse_plan_json(repaired)
                        ELSE _parse_plan_json(chat.response)
          IN /\ chat' = [chat EXCEPT !.calls = calls, !.repaired = repaired]
             /\ IF o.kind = "exception" THEN
                    /\ pc' = "raised"
                    /\ answer' = answer
                ELSE
                    /\ pc' = "answered"
                    /\ answer' = PlanResult(parsed.plan_data,
                                    IF parsed.plan_data = NoPlan
                                       /\ parsed.parse_error # NoError
                                    THEN parsed.parse_error ELSE chat.error_message,
                                    chat.response)
    /\ UNCHANGED <<tree, work, scope, results, extracted, graph, index, cursor, doc,
                   loaded, service, query>>

NextPlan == FirstChat \/ RetryChat \/ ParsePlan \/ RepairChat

SpecPlan == InitPlan /\ [][NextPlan]_vars

PlanCalls == SelectSeq(chat.calls, LAMBDA c : c.purpose = "plan")
PlanDone == pc \in {"plan_parse", "plan_repair", "answered", "raised"}
PlanAnswered == pc = "answered" /\ answer.op = "generate_migration_plan"
FirstStatus == chat.calls[1].status

\* the part of C18 about which requests are made: a first failure with status
\* 400 is followed by exactly one retry without the JSON response format, any
\* other first outcome by none, and at most three requests are made, the
\* third being the JSON repair
RequestDiscipline ==
    /\ Len(chat.calls) <= 3
    /\ Len(PlanCalls) <= 2
    /\ \A i \in 1..Len(chat.calls) :
          /\ chat.calls[i].purpose = "repair" => i = Len(chat.calls)
          /\ chat.calls[i].response_format = "json_object" <=> i = 1
    /\ (PlanDone /\ chat.calls # <<>>) =>
          Len(PlanCalls) = IF FirstStatus = 400 THEN 2 ELSE 1
    /\ (PlanAnswered /\ FirstStatus \in Statuses \ {400}) =>
          /\ answer.error = _format_openrouter_error(FirstStatus, 1)
          /\ answer.plan = NoPlan

\* C18 as stated: request discipline as above, and if the first request fails
\* with 400 and the retry succeeds the result carries the parsed plan and
\* error = None.
C18_Original ==
    /\ RequestDiscipline
    /\ (PlanAnswered /\ FirstStatus = 400 /\ chat.calls[2].status = 200) =>
          /\ answer.plan = "plan"
          /\ answer.error = NoError

\* C18 amended: request discipline as above; if the first request fails with
\* 400 and the retry succeeds, the message of the first failure is cleared:
\* the result carries the parsed plan and error = None when the content that
\* came back parses as JSON, as it is or after the repair request, and else
\* no plan and the parse error, or "No content returned from model", or, for
\* the JSON null, no error.
C18_RetryClearsFirstError ==
    /\ RequestDiscipline
    /\ (PlanAnswered /\ FirstStatus = 400 /\ chat.calls[2].status = 200) =>
          /\ answer.error \in {NoError, ParseError, NoContentError}
          /\ answer.plan = "plan" => answer.error = NoError
          /\ chat.response \in {"{plan}", "prose {plan} prose"} =>
                answer.plan = "plan" /\ Len(chat.calls) = 2
          /\ chat.response = NoContent =>
                answer.plan = NoPlan /\ answer.error = NoContentError
          /\ chat.response = "garbage" =>
                /\ Len(chat.calls) = 3
                /\ answer.plan = NoPlan =>
                      answer.error = IF chat.repaired = "null" THEN NoError
                                     ELSE ParseError

\* the first request failed with 400, the retry returned text that is no
\* JSON, and the repair request turned it into the plan: three requests
C18_Witness ==
    /\ PlanAnswered
    /\ Len(chat.calls) = 3
    /\ FirstStatus = 400 /\ chat.calls[2].status = 200
    /\ chat.calls[2].response_format = NoneVal
    /\ chat.response = "garbage"
    /\ answer.plan = "plan" /\ answer.error = NoError


(***************************************************************************)
(* C19.  Every CALLS edge has as its source the Function node func:p:Q,    *)
(* where Q is the qualified name of the innermost function definition      *)
(* that lexically encloses the call site in file p: every CALLS edge       *)
(* starts at the node of a function that lexically encloses a call, and    *)
(* every call site inside a function Q has its edge starting at func:p:Q,  *)
(* also when another function of the file shares Q's bare name.            *)
(***************************************************************************)
\* the call sites of the file that lie inside a named function
CallSitesInFunctions ==
    {s \in Sites(tree, <<>>) :
        /\ s.node.type = "call"
        /\ s.node.kids # <<>>
        /\ LexFunction(s.chain) # <<>>}

CallsFrom(u) ==
    {e \in Range(graph.edges) : graph.etype[e] = EDGE_CALLS /\ e[1] = u}

C19_SourceIsEnclosingFunction ==
    pc = "built" =>
      LET p == extracted[1].path
      IN /\ \A e \in Range(graph.edges) :
              graph.etype[e] = EDGE_CALLS =>
                \E s \in CallSitesInFunctions :
                    e[1] = <<"func", p, LexFunction(s.chain)>>
         /\ \A s \in CallSitesInFunctions :
              CallsFrom(<<"func", p, LexFunction(s.chain)>>) # {}

\* what the build does guarantee: the source of a call site's edge is a
\* function of the file with the bare name of the enclosing function, and it
\* is func:p:Q when Q is dotted or no other function shares its bare name
SourceSharesBareName ==
    pc = "built" =>
      LET p == extracted[1].path
      IN /\ \A e \in Range(graph.edges) :
              graph.etype[e] = EDGE_CALLS =>
                \E s \in CallSitesInFunctions :
                    e[1] \in FunctionsNamed(p, Last(LexFunction(s.chain)))
         /\ \A s \in CallSitesInFunctions :
              LET Q == LexFunction(s.chain)
              IN /\ \E u \in FunctionsNamed(p, Last(Q)) : CallsFrom(u) # {}
                 /\ (Len(Q) > 1 \/ FunctionsNamed(p, Last(Q)) = {<<"func", p, Q>>}) =>
                      CallsFrom(<<"func", p, Q>>) # {}

(***************************************************************************)
(* C20.  A call fact with no enclosing function (a module-level or         *)
(* class-body call) produces no edge and no external node: no CALLS edge   *)
(* has a File node as its source, every CALLS edge source is a             *)
(* non-external Function node indexed in pass 1, and every CALLS edge and  *)
(* every external Function node comes from a call fact that has a caller.  *)
(***************************************************************************)
\* the call facts of the entries with a usable path that name a caller
CallFactsWithCaller ==
    UNION {{c \in Range(extracted[i].calls) : c.caller # <<>>} :
             i \in {j \in 1..Len(extracted) : ~Falsy(extracted[j].path)}}

C20_ModuleLevelCallsDropped ==
    /\ \A e \in Range(graph.edges) :
          graph.etype[e] = EDGE_CALLS =>
            /\ graph.attr[e[1]].type = NODE_FUNCTION
            /\ graph.attr[e[1]].type # NODE_FILE
            /\ graph.attr[e[1]].external = Absent
            /\ graph.attr[e[1]].path # NoneVal
            /\ \E r \in Pass1Ids : r.id = e[1] /\ e[1][1] = "func"
            /\ \E c \in CallFactsWithCaller :
                  /\ graph.attr[e[1]].name = <<Last(c.caller)>>
                  /\ graph.attr[e[2]].name = <<Last(c.name)>>
    /\ \A n \in Range(graph.nodes) :
          (graph.attr[n].type = NODE_FUNCTION /\ graph.attr[n].external = "True") =>
            \E c \in CallFactsWithCaller : n = function_node_id(NoneVal, c.name)

\* a finished build of a file whose facts include the module-level call
\* print(): the call of bar() gave an edge, print() gave neither edge nor node
C20_Witness ==
    /\ pc = "built"
    /\ \E i \in 1..Len(extracted) :
          /\ ~Falsy(extracted[i].path)
          /\ ModuleCallsPrint \in Range(extracted[i].calls)
    /\ ~HasNode(graph, function_node_id(NoneVal, <<"print">>))
    /\ \E e \in Range(graph.edges) : graph.etype[e] = EDGE_CALLS
    /\ \A e \in Range(graph.edges) : graph.attr[e[2]].name # <<"print">>


(***************************************************************************)
(* C21.  An inheritance fact whose subclass was never indexed under        *)
(* exactly (its file's path, its qualified name) is skipped: every         *)
(* INHERITS edge starts at class:p:Q for an inheritance fact of file p     *)
(* with class name Q, where file p itself defines class Q, and every       *)
(* external Class node is a base of such a fact; a class of the same       *)
(* qualified or bare name in another file does not make the fact count.    *)
(***************************************************************************)
\* the (path, fact) pairs of the inheritance facts whose subclass is defined,
\* under that qualified name, by an entry with the path the fact comes from
InheritsOfIndexedSubclass ==
    UNION {{<<extracted[i].path, h>> :
              h \in {k \in Range(extracted[i].inherits) :
                       \E d \in 1..Len(extracted) :
                           /\ extracted[d].path = extracted[i].path
                           /\ \E c \in Range(extracted[d].classes) :
                                  c.qualname = k.class_name}} :
             i \in {j \in 1..Len(extracted) : ~Falsy(extracted[j].path)}}

\* the (path, fact) pairs of all inheritance facts of the usable entries
InheritsOfEntries ==
    UNION {{<<extracted[i].path, h>> : h \in Range(extracted[i].inherits)} :
             i \in {j \in 1..Len(extracted) : ~Falsy(extracted[j].path)}}

C21_UnindexedSubclassSkipped ==
    /\ \A e \in Range(graph.edges) :
          graph.etype[e] = EDGE_INHERITS =>
            \E ph \in InheritsOfIndexedSubclass :
                /\ e[1] = class_node_id(ph[1], ph[2].class_name)
                /\ \E b \in Range(ph[2].bases) : graph.attr[e[2]].qualname = b
    /\ \A n \in Range(graph.nodes) :
          (graph.attr[n].type = NODE_CLASS /\ graph.attr[n].external = "True") =>
            \E ph \in InheritsOfIndexedSubclass :
                \E b \in Range(ph[2].bases) : n = class_node_id(NoneVal, b)

\* what the build does guarantee: the subclass end of an INHERITS edge is a
\* class indexed in pass 1 whose qualified name, or bare name when the fact's
\* class name has no dot, is the fact's class name, in whichever file
SubclassIsSomeIndexedClass ==
    \A e \in Range(graph.edges) :
        graph.etype[e] = EDGE_INHERITS =>
          /\ \E r \in Pass1Ids : r.id = e[1] /\ e[1][1] = "class"
          /\ graph.attr[e[1]].external = Absent
          /\ \E ph \in InheritsOfEntries :
                /\ \/ graph.attr[e[1]].qualname = ph[2].class_name
                   \/ /\ Len(ph[2].class_name) = 1
                      /\ <<graph.attr[e[1]].name>> = ph[2].class_name
                /\ \E b \in Range(ph[2].bases) : graph.attr[e[2]].qualname = b


(***************************************************************************)
(* C22.  No call or inheritance fact is resolved before the definitions of *)
(* every input file are registered, and the definition index is not        *)
(* modified during pass 2: pass 1 adds no edge, pass 2 leaves the index    *)
(* alone, and in the finished graph a call or a base-class reference to a  *)
(* name that some input file defines ends at a node of a defining file and *)
(* never at an external placeholder, whether the defining file comes       *)
(* before or after the referring file in the input order.                  *)
(***************************************************************************)
UsableEntries == {j \in 1..Len(extracted) : ~Falsy(extracted[j].path)}

\* the paths of the files that define a function (class) that the name can
\* resolve to: by qualified name when dotted, by bare name otherwise
FunctionPaths(name) ==
    {extracted[j].path : j \in {k \in UsableEntries :
        \E f \in Range(extracted[k].functions) :
            IF Len(name) > 1 THEN f.qualname = name ELSE <<f.name>> = name}}

ClassPaths(name) ==
    {extracted[j].path : j \in {k \in UsableEntries :
        \E c \in Range(extracted[k].classes) :
            IF Len(name) > 1 THEN c.qualname = name ELSE <<c.name>> = name}}

NamedLike(id, name) ==
    IF Len(name) > 1 THEN graph.attr[id].qualname = name
    ELSE graph.attr[id].name = name

DefinedReferencesResolve ==
    pc = "built" =>
      \A i \in UsableEntries :
        /\ \A c \in Range(extracted[i].calls) :
              (c.caller # <<>> /\ FunctionPaths(c.caller) # {}
                 /\ FunctionPaths(c.name) # {}) =>
                /\ \E e \in Range(graph.edges) :
                      /\ graph.etype[e] = EDGE_CALLS
                      /\ e[2][1] = "func"
                      /\ e[2][2] \in FunctionPaths(c.name)
                      /\ graph.attr[e[2]].path \in FunctionPaths(c.name)
                      /\ graph.attr[e[2]].external = Absent
                      /\ NamedLike(e[2], c.name)
                      /\ NamedLike(e[1], c.caller)
                /\ \A n \in Range(graph.nodes) :
                      (graph.attr[n].type = NODE_FUNCTION
                         /\ graph.attr[n].qualname = c.name) =>
                        graph.attr[n].external = Absent
        /\ \A h \in Range(extracted[i].inherits) :
              ClassPaths(h.class_name) # {} =>
                \A b \in Range(h.bases) :
                  ClassPaths(b) # {} =>
                    /\ \E e \in Range(graph.edges) :
                          /\ graph.etype[e] = EDGE_INHERITS
                          /\ e[2][1] = "class"
                          /\ e[2][2] \in ClassPaths(b)
                          /\ graph.attr[e[2]].path \in ClassPaths(b)
                          /\ graph.attr[e[2]].external = Absent
                          /\ NamedLike(e[2], b)
                          /\ NamedLike(e[1], h.class_name)
                    /\ \A n \in Range(graph.nodes) :
                          (graph.attr[n].type = NODE_CLASS
                             /\ graph.attr[n].qualname = b) =>
                            graph.attr[n].external = Absent

TwoSequentialStages ==
    /\ pc = "pass1" => graph.edges = <<>> /\ graph'.edges = <<>>
    /\ pc = "pass2" => index' = index
    /\ pc' = "pass2" => Indexed' = UsableEntries

C22_TwoPassResolution == []DefinedReferencesResolve /\ [][TwoSequentialStages]_vars

\* a finished build of two files where the first refers to a function and to
\* a class that only the second defines: both references end at its nodes
C22_Witness ==
    /\ pc = "built"
    /\ Len(extracted) = 2
    /\ extracted[1].path = "external"
    /\ extracted[2].path = "a.py"
    /\ extracted[1].functions = <<>>
    /\ \/ /\ BarCallsBar \in Range(extracted[1].calls)
          /\ HasEdge(graph, <<"func", "a.py", <<"bar">>>>, <<"func", "a.py", <<"bar">>>>)
          /\ ~HasNode(graph, <<"func", "external", <<"bar">>>>)
       \/ /\ CX \notin Range(extracted[1].classes)
          /\ HasEdge(graph, <<"class", "external", <<"Y">>>>, <<"class", "a.py", <<"X">>>>)
          /\ ~HasNode(graph, <<"class", "external", <<"X">>>>)


(***************************************************************************)
(* C23.  Building is idempotent under repetition of input: when a whole    *)
(* file entry, or a single symbol, import, inheritance or call fact within *)
(* an entry, appears more than once in the input, build_graph returns a    *)
(* graph with the same node ids, node attributes and typed edges as for    *)
(* the input without the repetition (keeping either the first or the last  *)
(* occurrence of what is repeated), and there is never more than one edge  *)
(* per (source, target, type).                                             *)
(***************************************************************************)
\* a sequence without its repetitions, keeping first or last occurrences
Unrepeated(s, keep) ==
    CASE keep = "first" -> Dedup(s)
      [] keep = "last" -> Reverse(Dedup(Reverse(s)))
      [] OTHER -> s

UnrepeatedEntry(e, keep) ==
    [e EXCEPT !.functions = Unrepeated(@, keep),
              !.classes = Unrepeated(@, keep),
              !.imports = Unrepeated(@, keep),
              !.calls = Unrepeated(@, keep),
              !.inherits = Unrepeated(@, keep)]

UnrepeatedInput(entries, keepEntries, keepFacts) ==
    Unrepeated([i \in 1..Len(entries) |-> UnrepeatedEntry(entries[i], keepFacts)],
               keepEntries)

RECURSIVE Pass1Of(_, _, _)
Pass1Of(st, entries, i) ==
    IF i > Len(entries) THEN st
    ELSE Pass1Of(Pass1Entry(st, entries[i]), entries, i + 1)

RECURSIVE Pass2Of(_, _, _, _)
Pass2Of(g, ix, entries, i) ==
    IF i > Len(entries) THEN g
    ELSE Pass2Of(Pass2Entry(g, ix, entries[i]), ix, entries, i + 1)

\* the graph build_graph returns for the entries
BuildGraphOf(entries) ==
    LET st == Pass1Of([g |-> EmptyGraph, ix |-> EmptyIndex], entries, 1)
    IN Pass2Of(st.g, st.ix, entries, 1)

SameGraph(g, h) == g.attr = h.attr /\ g.etype = h.etype

HasRepetition(entries) == UnrepeatedInput(entries, "first", "first") # entries

OneEdgePerPair ==
    /\ \A i, j \in 1..Len(graph.edges) : graph.edges[i] = graph.edges[j] => i = j
    /\ Range(graph.edges) = DOMAIN graph.etype
    /\ \A i, j \in 1..Len(graph.nodes) : graph.nodes[i] = graph.nodes[j] => i = j

C23_BuildIdempotent ==
    /\ OneEdgePerPair
    /\ pc = "built" =>
         /\ graph = BuildGraphOf(extracted)
         /\ \E keepEntries \in {"first", "last"}, keepFacts \in {"first", "last"} :
               SameGraph(graph,
                   BuildGraphOf(UnrepeatedInput(extracted, keepEntries, keepFacts)))

\* what the build does guarantee: the repetition of a whole entry, and of
\* facts in a file no two of whose functions share a bare name, leaves the
\* graph as it is for the input with the first occurrences only
DistinctBareNames(entries) ==
    \A i, j \in 1..Len(entries) :
        entries[i].path = entries[j].path =>
          \A f \in Range(entries[i].functions), h \in Range(entries[j].functions) :
              f.name = h.name => f = h

IdempotentForDistinctBareNames ==
    /\ OneEdgePerPair
    /\ (pc = "built" /\ DistinctBareNames(extracted)) =>
          SameGraph(graph, BuildGraphOf(UnrepeatedInput(extracted, "first", "first")))


(***************************************************************************)
(* C24.  Under a non-empty edge-type filter, every edge returned by an     *)
(* expansion is an edge of the graph whose type is in the filter, and      *)
(* every returned node is a seed or is reached from a seed along edges     *)
(* whose types are in the filter; with no filter, or an empty one, edges   *)
(* of all types are traversed: every edge at a seed, in the asked          *)
(* direction, is returned whatever its type.                               *)
(***************************************************************************)
Filtered == query.edge_types \notin {NoFilter, {}}

EdgesAt(S, direction) ==
    {e \in Range(graph.edges) :
        \/ direction \in {"outgoing", "both"} /\ e[1] \in S
        \/ direction \in {"incoming", "both"} /\ e[2] \in S}

C24_FilterRespected ==
    Expanded =>
      /\ Filtered =>
           /\ \A e \in answer.edges :
                 /\ HasEdge(graph, e.source, e.target)
                 /\ graph.etype[<<e.source, e.target>>] \in query.edge_types
                 /\ e.type \in query.edge_types
           /\ ReturnedIds \subseteq
                 WithinDistance(graph, query.seed_ids, Len(graph.nodes),
                                query.direction, query.edge_types)
      /\ ~Filtered =>
           \A e \in EdgesAt(query.seed_ids, query.direction) :
               [source |-> e[1], target |-> e[2], type |-> graph.etype[e]]
                   \in answer.edges

\* an expansion under the filter {INHERITS} from a seed that also has a CALLS
\* edge to a node the filter keeps out of the result; and (second disjunct)
\* one with an empty filter that returned edges of both types
C24_Witness ==
    /\ Expanded
    /\ \/ /\ query.edge_types = {EDGE_INHERITS}
          /\ answer.edges # {}
          /\ \E e \in EdgesAt(query.seed_ids, query.direction) :
                /\ graph.etype[e] = EDGE_CALLS
                /\ {e[1], e[2]} \ ReturnedIds # {}
       \/ /\ query.edge_types = {}
          /\ \E e \in answer.edges : e.type = EDGE_CALLS
          /\ \E e \in answer.edges : e.type = EDGE_INHERITS


(***************************************************************************)
(* C25.  When graph_path succeeds, the returned node sequence starts at    *)
(* the resolved source, ends at the resolved target, each consecutive pair *)
(* is joined by an edge whose type passes the filter (forwards when        *)
(* directed, in either direction when not), with one edge entry per pair,  *)
(* and no strictly shorter such sequence exists; when source and target    *)
(* resolve to the same node the path is that node alone, with no edges.    *)
(***************************************************************************)
PathSucceeded ==
    /\ PathAnswered
    /\ EndpointsResolved
    /\ answer.raised = "none"
    /\ answer.error = Absent

PathDirection == IF query.directed THEN "outgoing" ELSE "both"

C25_ShortestFilteredPath ==
    PathSucceeded =>
      LET p == PathIds(answer)
          n == Len(p)
      IN /\ n >= 1
         /\ p[1] = query.source_id
         /\ p[n] = query.target_id
         /\ Len(answer.edges) = n - 1
         /\ \A i \in 1..(n - 1) :
               /\ StepAllowed(graph, p[i], p[i + 1], PathDirection, query.edge_types)
               /\ answer.edges[i].source = p[i]
               /\ answer.edges[i].target = p[i + 1]
         /\ \A k \in 0..(n - 2) :
               query.target_id \notin
                   WithinDistance(graph, {query.source_id}, k, PathDirection,
                                  query.edge_types)
         /\ query.source_id = query.target_id =>
               p = <<query.source_id>> /\ answer.edges = <<>>

\* an undirected path of two CALLS edges, found although source and target
\* are joined directly by an edge of another type
C25_Witness ==
    /\ PathSucceeded
    /\ ~query.directed
    /\ query.edge_types = {EDGE_CALLS}
    /\ Len(answer.path) = 3
    /\ \/ HasEdge(graph, query.source_id, query.target_id)
       \/ HasEdge(graph, query.target_id, query.source_id)


(***************************************************************************)
(* GraphService.stats and metadata (mcp_graph.py).                         *)
(***************************************************************************)
\* data.get("type", "Unknown") of a node
NodeTypeOf(g, n) == IF g.attr[n].type = Absent THEN "Unknown" ELSE g.attr[n].type

\* a dict of counts: the keys met, with the number of items of each
CountsOf(items, key(_)) ==
    [k \in {key(items[i]) : i \in 1..Len(items)} |->
        Cardinality({i \in 1..Len(items) : key(items[i]) = k})]

RECURSIVE InsertDesc(_, _)
\* the pair x = <<key, item>> put into a list of pairs sorted by decreasing
\* key, after the pairs of equal key
InsertDesc(sorted, x) ==
    IF sorted = <<>> THEN <<x>>
    ELSE IF Head(sorted)[1] >= x[1]
         THEN <<Head(sorted)>> \o InsertDesc(Tail(sorted), x)
         ELSE <<x>> \o sorted

RECURSIVE SortedPairsDesc(_)
SortedPairsDesc(pairs) ==
    IF pairs = <<>> THEN <<>>
    ELSE InsertDesc(SortedPairsDesc(Front(pairs)), Last(pairs))

\* sorted(items, key=key, reverse=True): stable, by decreasing key
SortedDesc(items, key(_)) ==
    LET sorted == SortedPairsDesc([i \in 1..Len(items) |-> <<key(items[i]), items[i]>>])
    IN [i \in 1..Len(sorted) |-> sorted[i][2]]

\* seq[:limit]
SliceTo(seq, limit) ==
    IF limit >= 0 THEN SubSeq(seq, 1, IF limit < Len(seq) THEN limit ELSE Len(seq))
    ELSE SubSeq(seq, 1, Len(seq) + limit)

\* graph.degree(): in-degree plus out-degree, in node order
Degrees(g) ==
    [i \in 1..Len(g.nodes) |->
        <<g.nodes[i],
          Cardinality({e \in Range(g.edges) : e[1] = g.nodes[i]})
          + Cardinality({e \in Range(g.edges) : e[2] = g.nodes[i]})>>]

RECURSIVE SplitParts(_, _, _)
\* [part for part in s.split("/") if part]
SplitParts(s, i, part) ==
    IF i > Len(s) THEN (IF part = <<>> THEN <<>> ELSE <<part>>)
    ELSE IF s[i] = "/"
         THEN (IF part = <<>> THEN <<>> ELSE <<part>>) \o SplitParts(s, i + 1, <<>>)
         ELSE SplitParts(s, i + 1, Append(part, s[i]))

JwstMarker == <<"/", "j", "w", "s", "t", "-", "m", "a", "i", "n", "/">>

\* s.find(needle): the first position (from 0) or -1
Find(s, needle) ==
    LET hits == {i \in 0..(Len(s) - Len(needle)) :
                    SubSeq(s, i + 1, i + Len(needle)) = needle}
    IN IF hits = {} THEN -1 ELSE CHOOSE i \in hits : \A j \in hits : i <= j

_module_group_from_path(path) ==
    LET normalized == [i \in 1..Len(path) |-> IF path[i] = "\\" THEN "/" ELSE path[i]]
        idx == Find(Lower(normalized), JwstMarker)
        root == <<"r", "o", "o", "t">>
    IN IF idx # -1
       THEN LET parts == SplitParts(SubSeq(normalized, idx + Len(JwstMarker) + 1,
                                           Len(normalized)), 1, <<>>)
            IN IF parts # <<>> THEN parts[1] ELSE root
       ELSE LET parts == SplitParts(normalized, 1, <<>>)
            IN IF Len(parts) >= 2 THEN parts[Len(parts) - 1]
               ELSE IF parts # <<>> THEN parts[1] ELSE root

\* module_breakdown: the groups of the nodes with a path, counted, by
\* decreasing count
ModuleBreakdown(g, limit) ==
    LET pathed == SelectSeq(g.nodes,
                      LAMBDA n : g.attr[n].path # Absent /\ Truthy(g.attr[n].path))
        groups == [i \in 1..Len(pathed) |->
                      _module_group_from_path(Str(g.attr[pathed[i]].path))]
        keys == Dedup(groups)
        counted == [i \in 1..Len(keys) |->
                      [module |-> keys[i],
                       count |-> Cardinality({j \in 1..Len(groups) :
                                                 groups[j] = keys[i]})]]
    IN SliceTo(SortedDesc(counted, LAMBDA item : item.count), limit)

RECURSIVE PlainBfs(_, _, _)
\* networkx _plain_bfs: the nodes reached from the frontier through adj
PlainBfs(adj, seen, frontier) ==
    IF frontier = {} THEN seen
    ELSE LET next == UNION {Range(adj[v]) : v \in frontier} \ seen
         IN PlainBfs(adj, seen \cup next, next)

RECURSIVE ComponentsFrom(_, _, _, _)
\* nx.connected_components: for each node not seen yet, in node order, the
\* component found from it
ComponentsFrom(nodes, adj, i, seen) ==
    IF i > Len(nodes) THEN <<>>
    ELSE IF nodes[i] \in seen THEN ComponentsFrom(nodes, adj, i + 1, seen)
    ELSE LET c == PlainBfs(adj, {nodes[i]}, {nodes[i]})
         IN <<c>> \o ComponentsFrom(nodes, adj, i + 1, seen \cup c)

\* mutant: the clusters are not cut to the limit
ClusterSizesUncut(g, limit) ==
    IF Len(g.nodes) = 0 THEN <<>>
    ELSE LET adj == [v \in Range(g.nodes) |-> UndirectedAdj(g, v)]
             comps == ComponentsFrom(g.nodes, adj, 1, {})
             clusters == SortedDesc([i \in 1..Len(comps) |-> Cardinality(comps[i])],
                                    LAMBDA size : size)
         IN [i \in 1..Len(clusters) |-> [cluster |-> i, size |-> clusters[i]]]

_cluster_sizes(g, limit) ==
    IF Len(g.nodes) = 0 THEN <<>>
    ELSE LET adj == [v \in Range(g.nodes) |-> UndirectedAdj(g, v)]
             comps == ComponentsFrom(g.nodes, adj, 1, {})
             clusters == SortedDesc([i \in 1..Len(comps) |-> Cardinality(comps[i])],
                                    LAMBDA size : size)
             cut == SliceTo(clusters, limit)
         IN [i \in 1..Len(cut) |-> [cluster |-> i, size |-> cut[i]]]

\* the result dict of stats(edge_types, limit)
StatsAnswer(g, svc, edge_types, limit) ==
    LET view == _edge_filtered_graph(g, edge_types)
        hubs == SliceTo(SortedDesc(Degrees(view), LAMBDA item : item[2]), limit)
        edges == GraphEdges(g)
    IN [op |-> "stats",
        node_counts |-> CountsOf(g.nodes, LAMBDA n : NodeTypeOf(g, n)),
        edge_counts |-> CountsOf(edges, LAMBDA e : g.etype[e]),
        top_hubs |-> [i \in 1..Len(hubs) |->
                         [node |-> _node_view(svc, hubs[i][1]), degree |-> hubs[i][2]]],
        module_breakdown |-> ModuleBreakdown(g, limit),
        clusters |-> _cluster_sizes(view, limit)]

\* the result dict of metadata(), for a graph without a snapshot entry built
\* by GraphService(graph)
MetadataAnswer(g) ==
    [op |-> "metadata", source_root |-> NoneVal, generated_at |-> NoneVal,
     node_count |-> Len(g.nodes), edge_count |-> Len(g.edges),
     graph_path |-> NoneVal]

DefaultStatsLimit == 10
StatsLimits == {0, 1, 2, DefaultStatsLimit}

IdU == <<"u">>

\* the searched nodes and a node that has no attributes
StatsNodes ==
    SearchedNodes \o << <<IdU, NodeAttrs(Absent, PyNone, PyNone, PyNone, Absent)>> >>

RECURSIVE WithPickedNodes(_, _, _)
WithPickedNodes(g, picked, i) ==
    IF i > Len(StatsNodes) THEN g
    ELSE WithPickedNodes(IF i \in picked
                         THEN AddNode(g, StatsNodes[i][1], StatsNodes[i][2])
                         ELSE g,
                         picked, i + 1)

\* graphs of some of the nodes and up to MaxEdges edges between them
StatsGraphs ==
    {WithEdges(WithPickedNodes(EmptyGraph, picked, 1), chosen, 1) :
        picked \in SUBSET (1..Len(StatsNodes)),
        chosen \in {c \in SUBSET (1..Len(CandidateEdges)) : Cardinality(c) <= MaxEdges}}

\* GraphService(graph) on one of these graphs
InitStats ==
    /\ pc = "serving"
    /\ tree = NoNode
    /\ work = <<>>
    /\ scope = <<>>
    /\ results = EmptyResults(NoneVal)
    /\ extracted = <<>>
    /\ cursor = 0
    /\ index = EmptyIndex
    /\ doc = NoDoc
    /\ loaded = EmptyGraph
    /\ graph \in StatsGraphs
    /\ \A n \in Range(graph.nodes) : graph.attr[n] # NoAttrs
    /\ service = _build_indexes(graph)
    /\ query = NoQuery
    /\ answer = NoAnswer
    /\ chat = NoChat

Stats ==
    /\ pc = "serving"
    /\ \E edge_types \in EdgeFilters, limit \in StatsLimits :
          /\ query' = [op |-> "stats", edge_types |-> edge_types, limit |-> limit]
          /\ answer' = StatsAnswer(graph, service, edge_types, limit)
          /\ graph' = SelfGraphAfterView(graph, edge_types, Len(graph.nodes) # 0)
    /\ pc' = "answered"
    /\ UNCHANGED <<tree, work, scope, results, extracted, index, cursor, doc, loaded,
                   service, chat>>

Metadata ==
    /\ pc = "serving"
    /\ query' = [op |-> "metadata"]
    /\ answer' = MetadataAnswer(graph)
    /\ pc' = "answered"
    /\ UNCHANGED <<tree, work, scope, results, extracted, graph, index, cursor, doc,
                   loaded, service, chat>>

NextStats == Stats \/ Metadata \/ Reply

SpecStats == InitStats /\ [][NextStats]_vars

(***************************************************************************)
(* C26.  stats reports node-type counts that sum to the number of nodes    *)
(* and edge-type counts that sum to the number of edges of the unfiltered  *)
(* graph; its clusters are the sizes of the undirected connected           *)
(* components of the edge-type-filtered view, in non-increasing order,     *)
(* numbered from 1, with at most `limit` entries (the largest ones, for a  *)
(* limit of 0 or more), and when the number of components is at most       *)
(* `limit` the sizes sum to the number of nodes.                           *)
(***************************************************************************)
RECURSIVE SumOf(_, _)
SumOf(f, S) ==
    IF S = {} THEN 0
    ELSE LET x == CHOOSE y \in S : TRUE IN f[x] + SumOf(f, S \ {x})

StatsAnswered == pc = "answered" /\ answer.op = "stats"

\* the undirected connected components of the graph under the asked filter
ComponentsUnder(edge_types) ==
    {WithinDistance(graph, {n}, Len(graph.nodes), "both", edge_types) :
        n \in Range(graph.nodes)}

Least(a, b) == IF a <= b THEN a ELSE b

C26_StatsCounts ==
    StatsAnswered =>
      LET comps == ComponentsUnder(query.edge_types)
          sizes == [i \in 1..Len(answer.clusters) |-> answer.clusters[i].size]
      IN /\ SumOf(answer.node_counts, DOMAIN answer.node_counts) = Len(graph.nodes)
         /\ SumOf(answer.edge_counts, DOMAIN answer.edge_counts) = Len(graph.edges)
         /\ \A t \in Range(graph.nodes) :
               answer.node_counts[NodeTypeOf(graph, t)] =
                   Cardinality({n \in Range(graph.nodes) :
                                   NodeTypeOf(graph, n) = NodeTypeOf(graph, t)})
         /\ \A e \in Range(graph.edges) :
               answer.edge_counts[graph.etype[e]] =
                   Cardinality({d \in Range(graph.edges) :
                                   graph.etype[d] = graph.etype[e]})
         /\ Len(sizes) = Least(query.limit, Cardinality(comps))
         /\ \A i \in 1..Len(sizes) : answer.clusters[i].cluster = i
         /\ \A i \in 1..(Len(sizes) - 1) : sizes[i] >= sizes[i + 1]
         /\ \A t \in 1..Len(graph.nodes) :
               Cardinality({i \in 1..Len(sizes) : sizes[i] >= t}) =
                   Least(query.limit,
                         Cardinality({c \in comps : Cardinality(c) >= t}))
         /\ Cardinality(comps) <= query.limit =>
               SumOf(sizes, 1..Len(sizes)) = Len(graph.nodes)

\* stats under a filter that splits the graph into more components than the
\* limit lets through, on a graph with nodes and edges of two types each
C26_Witness ==
    /\ StatsAnswered
    /\ query.edge_types = {EDGE_CALLS}
    /\ query.limit = 2
    /\ Cardinality(ComponentsUnder(query.edge_types)) = 3
    /\ Cardinality(ComponentsUnder(NoFilter)) < 3
    /\ Cardinality(DOMAIN answer.node_counts) >= 2
    /\ Cardinality(DOMAIN answer.edge_counts) = 2
    /\ answer.clusters[1].size >= 2


(***************************************************************************)
(* The service under every query operation, from GraphService.from_json:   *)
(* `loaded` keeps the graph as load_graph returned it.                     *)
(***************************************************************************)
MaxQueriedEdges == 2

QueriedGraphs ==
    {WithEdges(WithNodes(EmptyGraph, 1), chosen, 1) :
        chosen \in {c \in SUBSET (1..Len(CandidateEdges)) :
                       Cardinality(c) <= MaxQueriedEdges}}

InitQueries ==
    /\ pc = "serving"
    /\ tree = NoNode
    /\ work = <<>>
    /\ scope = <<>>
    /\ results = EmptyResults(NoneVal)
    /\ extracted = <<>>
    /\ cursor = 0
    /\ index = EmptyIndex
    /\ doc = NoDoc
    /\ loaded \in QueriedGraphs
    /\ graph = loaded
    /\ service = _build_indexes(graph)
    /\ query = NoQuery
    /\ answer = NoAnswer
    /\ chat = NoChat

NextQueries ==
    \/ Search
    \/ GetDependencies
    \/ ImpactAnalysis
    \/ Subgraph
    \/ GraphPath
    \/ Stats
    \/ Metadata
    \/ Reply

SpecQueries == InitQueries /\ [][NextQueries]_vars

(***************************************************************************)
(* C27.  No query operation (search, get_dependencies, impact_analysis,    *)
(* subgraph, graph_path with or without filter and with directed true or   *)
(* false, stats, metadata) changes the loaded graph's nodes, edges or      *)
(* attributes or the service's exact-match indexes and node list; after    *)
(* any sequence of queries a query is answered as the freshly loaded       *)
(* service answers it.                                                     *)
(***************************************************************************)
FreshService == _build_indexes(loaded)

\* the answers the freshly loaded service can give to the query
FreshAnswers ==
    CASE query.op = "search" ->
           {[op |-> "search",
             matches |-> _search_nodes(FreshService, query.query, query.node_types,
                                       query.limit)]}
      [] query.op \in ExpandOps ->
           {BfsAnswer(query.op, loaded, FreshService, found) :
               found \in _bfs(loaded,
                              _resolve_seed_nodes(FreshService, query.query,
                                                  ExpansionSeedCount),
                              query.direction, query.hops, FilterArg(query.edge_types),
                              query.limit)}
      [] query.op = "graph_path" ->
           LET source_ids == _resolve_seed_nodes(FreshService, query.source,
                                                 PathEndpointCount)
               target_ids == _resolve_seed_nodes(FreshService, query.target,
                                                 PathEndpointCount)
           IN IF source_ids = {} \/ target_ids = {} THEN {NotFoundAnswer}
              ELSE {PathAnswer(loaded, FreshService, s, t, query.edge_types,
                               query.directed) : s \in source_ids, t \in target_ids}
      [] query.op = "stats" ->
           {StatsAnswer(loaded, FreshService, query.edge_types, query.limit)}
      [] query.op = "metadata" -> {MetadataAnswer(loaded)}
      [] OTHER -> {}

C27_QueriesLeaveServiceAlone ==
    /\ graph = loaded
    /\ service = FreshService
    /\ pc = "answered" => answer \in FreshAnswers

\* an undirected, unfiltered graph_path has found a path that walks an edge
\* against its direction: the view it searched is self.graph itself
C27_Witness ==
    /\ PathSucceeded
    /\ ~query.directed
    /\ query.edge_types = NoFilter
    /\ Len(answer.path) >= 2
    /\ ~HasEdge(loaded, answer.path[1].id, answer.path[2].id)
    /\ HasEdge(loaded, answer.path[2].id, answer.path[1].id)


(***************************************************************************)
(* C28.  When the limit is not reached, an h-hop expansion with h >= 1 is  *)
(* complete: every node within unweighted distance h of some seed, along   *)
(* edges in the requested direction that pass the edge-type filter, is     *)
(* returned, and every seed is returned.                                   *)
(***************************************************************************)
LimitNotReached == Cardinality(ReturnedIds) < query.limit

C28_CompleteBelowLimit ==
    (Expanded /\ query.hops >= 1 /\ LimitNotReached) =>
        /\ query.seed_ids \subseteq ReturnedIds
        /\ WithinDistance(graph, query.seed_ids, query.hops, query.direction,
                          query.edge_types) \subseteq ReturnedIds

\* a two-hop expansion under a filter, below its limit, whose seed has a node
\* at distance two that is not at distance one
C28_Witness ==
    /\ Expanded
    /\ query.hops = 2
    /\ query.edge_types = {EDGE_CALLS}
    /\ LimitNotReached
    /\ Cardinality(query.seed_ids) = 1
    /\ WithinDistance(graph, query.seed_ids, 2, query.direction, query.edge_types)
         \ WithinDistance(graph, query.seed_ids, 1, query.direction, query.edge_types)
         # {}
    /\ Cardinality(ReturnedIds) >= 3


(***************************************************************************)
(* C29.  Every edge returned by an expansion has both its source and its   *)
(* target among the nodes returned by the same expansion, including when   *)
(* the node limit cuts the expansion short in the middle of a hop.         *)
(***************************************************************************)
C29_EdgesAmongReturnedNodes ==
    Expanded =>
        \A e \in answer.edges : e.source \in ReturnedIds /\ e.target \in ReturnedIds

\* what the expansion does guarantee: every returned edge is an edge of the
\* graph with an end among the returned nodes, and with both ends among them
\* when the limit was not reached
EdgesTouchReturnedNodes ==
    Expanded =>
        \A e \in answer.edges :
            /\ HasEdge(graph, e.source, e.target)
            /\ e.source \in ReturnedIds \/ e.target \in ReturnedIds
            /\ LimitNotReached => e.source \in ReturnedIds /\ e.target \in ReturnedIds


(***************************************************************************)
(* C30.  Every entry in the edges list of a successful graph_path result   *)
(* describes an edge that exists in the loaded graph with the reported     *)
(* source and target, carries that edge's actual type (never 'Unknown'),   *)
(* and under an edge-type filter carries a type in the filter; also for    *)
(* directed=false paths that walk an edge against its direction.           *)
(***************************************************************************)
C30_PathEdgesAreGraphEdges ==
    PathSucceeded =>
        \A i \in 1..Len(answer.edges) :
            LET e == answer.edges[i]
            IN /\ HasEdge(graph, e.source, e.target)
               /\ e.type # "Unknown"
               /\ e.type = graph.etype[<<e.source, e.target>>]
               /\ query.edge_types \notin {NoFilter, {}} => e.type \in query.edge_types

\* what graph_path does guarantee: the claim for directed=true; for
\* directed=false each entry joins two neighbours of the path by an edge of
\* an allowed type in one direction or the other, and its type is that of the
\* edge from the entry's source to its target, or 'Unknown' when the graph
\* has no edge in that direction
PathEdgesUpToDirection ==
    PathSucceeded =>
        \A i \in 1..Len(answer.edges) :
            LET e == answer.edges[i]
                forward == HasEdge(graph, e.source, e.target)
            IN /\ StepAllowed(graph, e.source, e.target, PathDirection,
                              query.edge_types)
               /\ e.type = IF forward THEN graph.etype[<<e.source, e.target>>]
                           ELSE "Unknown"
               /\ query.directed =>
                     /\ forward
                     /\ query.edge_types \notin {NoFilter, {}} =>
                           e.type \in query.edge_types
====
